---- MODULE Spec2Model ----
(***************************************************************************)
(* Model of the distributed block-cyclic dense matrix layer of STRUMPACK   *)
(* (src/src/dense/DistributedMatrix.hpp): the global/local index mapping,  *)
(* the life cycle of the local buffer of a DistributedMatrix, and the      *)
(* point-to-point exchange of extract_rows / extract_cols.                 *)
(***************************************************************************)
EXTENDS Integers, Sequences, FiniteSets, TLC

VARIABLES
  idx,    \* SpecIdx: the probe of the index functions
  lay,    \* SpecLay: one matrix constructed on every worker of the pool
  env,    \* SpecObj: the worker and the grid its matrices live on
  objs,   \* SpecObj: the DistributedMatrix objects of that worker
  heap,   \* SpecObj: the buffers allocated with new[] on that worker
  fault,  \* SpecObj: the undefined behaviour the worker ran into, if any
  nops,   \* SpecObj: the number of operations the worker has run
  run,    \* SpecX: the grid, the matrices and the index list of the call
  wk,     \* SpecX: every worker's matrices, buffers and place in the call
  net,    \* SpecX: the messages between the workers
  call,   \* SpecNum: the grid, the matrix and the kernel outcomes of a call
  out     \* SpecNum: what the call left on every worker

vars == <<idx, lay, env, objs, heap, fault, nops, run, wk, net, call, out>>
objVars == <<env, objs, heap, fault, nops>>
xVars == <<run, wk, net>>
numVars == <<call, out>>

(***************************************************************************)
(* Bounds of the model.                                                    *)
(***************************************************************************)
MaxNP == 2      \* largest extent of a process grid in either dimension
MaxBlock == 3   \* largest block size MB / NB
MaxOff == 1     \* largest offset (_i, _j) of a view
MaxLoc == 6     \* largest local index probed
MaxGlob == 8    \* largest global index probed
MaxDim == 5     \* largest global row / column count of a constructed matrix
MaxObj == 2     \* number of DistributedMatrix objects a worker holds
MaxOps == 4     \* number of operations in one run of a worker
MaxAlloc == 3   \* number of new[] calls in one run of a worker
MaxObjDim == 2  \* largest global row / column count of those objects
XDim == 3       \* rows and columns of the matrix an extraction is called on
MaxIdx == 3     \* largest length of an index list
MaxCat == 2     \* largest column count of the matrices that are concatenated

(***************************************************************************)
(* Program constants.  default_MB / default_NB is the build option         *)
(* STRUMPACK_PBLAS_BLOCKSIZE (32 when the build does not set it); the      *)
(* model is of a build that sets it to 1, so that the matrices of the      *)
(* model spread over the grid.                                             *)
(***************************************************************************)
default_MB == 1
default_NB == 1

(***************************************************************************)
(* C++ integer division and remainder (truncation towards zero).           *)
(***************************************************************************)
CDiv(a, b) == IF a >= 0 THEN a \div b ELSE -((-a) \div b)
CMod(a, b) == a - b * CDiv(a, b)
Max(a, b) == IF a >= b THEN a ELSE b
Min(a, b) == IF a <= b THEN a ELSE b

(***************************************************************************)
(* The 1-based ScaLAPACK index functions.                                  *)
(***************************************************************************)
\* indxl2g without the offset of the calling process
indxl2g_noproc(INDXLOC, NB, IPROC, ISRCPROC, NPROCS) ==
  NPROCS * NB * CDiv(INDXLOC - 1, NB) + CMod(INDXLOC - 1, NB) + 1

indxl2g(INDXLOC, NB, IPROC, ISRCPROC, NPROCS) ==
  NPROCS * NB * CDiv(INDXLOC - 1, NB) + CMod(INDXLOC - 1, NB)
    + CMod(NPROCS + IPROC - ISRCPROC, NPROCS) * NB + 1

\* indxg2l that takes the block index for the index of the local block
indxg2l_allblocks(INDXGLOB, NB, IPROC, ISRCPROC, NPROCS) ==
  NB * CDiv(INDXGLOB - 1, NB) + CMod(INDXGLOB - 1, NB) + 1

indxg2l(INDXGLOB, NB, IPROC, ISRCPROC, NPROCS) ==
  NB * CDiv(INDXGLOB - 1, NB * NPROCS) + CMod(INDXGLOB - 1, NB) + 1

\* indxg2p applied to a 0-based index
indxg2p_zerobased(INDXGLOB, NB, IPROC, ISRCPROC, NPROCS) ==
  CMod(ISRCPROC + CDiv(INDXGLOB, NB), NPROCS)

indxg2p(INDXGLOB, NB, IPROC, ISRCPROC, NPROCS) ==
  CMod(ISRCPROC + CDiv(INDXGLOB - 1, NB), NPROCS)

\* scalapack::numroc: the number of rows/columns of a distributed matrix
\* of extent n, block size nb, that process iproc of nprocs owns.
numroc(n, nb, iproc, isrcproc, nprocs) ==
  LET mydist == CMod(nprocs + iproc - isrcproc, nprocs)
      nblocks == CDiv(n, nb)
      base == CDiv(nblocks, nprocs) * nb
      extrablks == CMod(nblocks, nprocs)
  IN  IF mydist < extrablks THEN base + nb
      ELSE IF mydist = extrablks THEN base + CMod(n, nb)
      ELSE base

\* scalapack::descset: the 9 integers of the descriptor, indexed as in C.
descset(m, n, mb, nb, irsrc, icsrc, ictxt, lld) ==
  [k \in 0..8 |->
     CASE k = 0 -> 1
       [] k = 1 -> ictxt
       [] k = 2 -> m
       [] k = 3 -> n
       [] k = 4 -> mb
       [] k = 5 -> nb
       [] k = 6 -> irsrc
       [] k = 7 -> icsrc
       [] k = 8 -> lld]

(***************************************************************************)
(* The process grid as one worker sees it.  Workers are numbered           *)
(* 0 .. P-1; worker w is in the grid iff w < nprows*npcols and then sits   *)
(* at row w % nprows, column w \div nprows (see rank(r,c)).  A null grid   *)
(* pointer is NoGrid.                                                      *)
(***************************************************************************)
NoGrid == [nprows |-> 0, npcols |-> 0, prow |-> -1, pcol |-> -1,
           active |-> FALSE, ctxt |-> -1, null |-> TRUE]

BLACSGrid(nprows, npcols, w) ==
  IF w < nprows * npcols
  THEN [nprows |-> nprows, npcols |-> npcols, prow |-> w % nprows,
        pcol |-> w \div nprows, active |-> TRUE, ctxt |-> 0, null |-> FALSE]
  ELSE [nprows |-> -1, npcols |-> -1, prow |-> -1, pcol |-> -1,
        active |-> FALSE, ctxt |-> -1, null |-> FALSE]

(***************************************************************************)
(* Accessors of a matrix handle m: a record with the fields grid, data,    *)
(* lrows, lcols, desc of DistributedMatrix and, for a view, wrapper = TRUE *)
(* with rows_, cols_, i_, j_ of DistributedMatrixWrapper.                  *)
(***************************************************************************)
active(m) == (~m.grid.null) /\ m.grid.active
rows(m) == IF m.wrapper THEN m.rows_ ELSE m.desc[2]
cols(m) == IF m.wrapper THEN m.cols_ ELSE m.desc[3]
lrows(m) == m.lrows
lcols(m) == m.lcols
ld(m) == m.lrows
MB(m) == m.desc[4]
NB(m) == m.desc[5]
I(m) == IF m.wrapper THEN m.i_ + 1 ELSE 1
J(m) == IF m.wrapper THEN m.j_ + 1 ELSE 1
prow(m) == m.grid.prow
pcol(m) == m.grid.pcol
nprows(m) == m.grid.nprows
npcols(m) == m.grid.npcols
ctxt(m) == IF m.grid.null THEN -1 ELSE m.grid.ctxt

rowl2g(m, row) == indxl2g(row + 1, MB(m), prow(m), 0, nprows(m)) - I(m)
coll2g(m, col) == indxl2g(col + 1, NB(m), pcol(m), 0, npcols(m)) - J(m)
rowg2l(m, row) == indxg2l(row + I(m), MB(m), prow(m), 0, nprows(m)) - 1
colg2l(m, col) == indxg2l(col + J(m), NB(m), pcol(m), 0, npcols(m)) - 1
rowg2p(m, row) == indxg2p(row + I(m), MB(m), prow(m), 0, nprows(m))
colg2p(m, col) == indxg2p(col + J(m), NB(m), pcol(m), 0, npcols(m))
rank(m, r, c) == rowg2p(m, r) + colg2p(m, c) * nprows(m)
is_local(m, r, c) == rowg2p(m, r) = prow(m) /\ colg2p(m, c) = pcol(m)

(***************************************************************************)
(* A handle that carries only what the index functions read: block sizes,  *)
(* grid coordinates and the offsets of a view.                             *)
(***************************************************************************)
Handle(g, mb, nb, i, j) ==
  [grid |-> g, data |-> 0, lrows |-> 0, lcols |-> 0,
   desc |-> descset(0, 0, mb, nb, 0, 0, g.ctxt, 1),
   wrapper |-> (i > 0 \/ j > 0), rows_ |-> 0, cols_ |-> 0, i_ |-> i, j_ |-> j]

GridShapes == (1..MaxNP) \X (1..MaxNP)

\* The workers of the pool: enough for the largest grid.
P == MaxNP * MaxNP
Workers == 0..(P - 1)

(***************************************************************************)
(* DistributedMatrix(g, M, N, MB, NB) without its buffer: the handle it    *)
(* leaves; data_ (new scalar_t[lrows*lcols] on an active worker) is set by *)
(* the action that runs the constructor.                                   *)
(***************************************************************************)
descinit(m, n, mb, nb, irsrc, icsrc, ictxt, lld) ==
  descset(m, n, mb, nb, irsrc, icsrc, ictxt, lld)

DistributedMatrix5(g, M, N, MB0, NB0) ==
  LET mb == Max(1, MB0)
      nb == Max(1, NB0)
      act == (~g.null) /\ g.active
      lr == IF act THEN numroc(M, mb, g.prow, 0, g.nprows) ELSE 0
      lc == IF act THEN numroc(N, nb, g.pcol, 0, g.npcols) ELSE 0
  IN  [grid |-> g, data |-> 0, lrows |-> lr, lcols |-> lc,
       desc |-> IF act
                THEN descinit(M, N, mb, nb, 0, 0, g.ctxt, Max(lr, 1))
                ELSE descset(M, N, mb, nb, 0, 0, -1, Max(lr, 1)),
       wrapper |-> FALSE, rows_ |-> 0, cols_ |-> 0, i_ |-> 0, j_ |-> 0]

\* DistributedMatrix(g, M, N)
DistributedMatrix3(g, M, N) == DistributedMatrix5(g, M, N, default_MB, default_NB)

\* operator()(r, c): the position of local entry (r, c) in the buffer
\* (0-based, column major with leading dimension ld()).
At(m, r, c) == r + ld(m) * c

(***************************************************************************)
(* The objects and the heap of one worker, and the idle values of the      *)
(* variables a specification does not use.                                 *)
(***************************************************************************)
Slots == 1..MaxObj
ObjDims == {0, MaxObjDim}
Dead == [dead |-> TRUE]
Uninit == -1     \* the value of an element that was never written
Remote == 9      \* a value pgemr2d delivered from another matrix
Zero == 0        \* a value-initialized element of a std::vector
FillVals == {1}
NoEnv == [w |-> 0, nprows |-> 1, npcols |-> 1]
EmptyHeap == <<>>
ObjIdle ==
  /\ env = NoEnv
  /\ objs = [s \in Slots |-> Dead]
  /\ heap = EmptyHeap
  /\ fault = "none"
  /\ nops = 0

XIdle == run = [kind |-> "none"] /\ wk = <<>> /\ net = <<>>
NoCall == [op |-> "none"]
NumIdle == call = NoCall /\ out = NoCall

(***************************************************************************)
(* Specification SpecIdx: the index functions applied to bounded inputs.   *)
(***************************************************************************)
NoProbe == [op |-> "none"]
NoLayout == [op |-> "none"]

IdxInit == idx = NoProbe /\ lay = NoLayout /\ ObjIdle /\ XIdle /\ NumIdle

\* local -> global -> local, owner
MapLocal ==
  /\ idx.op = "none"
  /\ \E gs \in GridShapes, mb \in 1..MaxBlock, nb \in 1..MaxBlock,
     i \in 0..MaxOff, j \in 0..MaxOff, l \in 0..MaxLoc, c \in 0..MaxLoc :
    \E w \in 0..(gs[1] * gs[2] - 1) :
      LET m == Handle(BLACSGrid(gs[1], gs[2], w), mb, nb, i, j)
      IN  idx' = [op |-> "l2g", m |-> m, l |-> l, c |-> c,
                  gr |-> rowl2g(m, l), gc |-> coll2g(m, c),
                  lr |-> rowg2l(m, rowl2g(m, l)),
                  lc |-> colg2l(m, coll2g(m, c)),
                  pr |-> rowg2p(m, rowl2g(m, l)),
                  pc |-> colg2p(m, coll2g(m, c))]
  /\ UNCHANGED <<lay, objVars, xVars, numVars>>

\* global -> owner, local -> global
MapGlobal ==
  /\ idx.op = "none"
  /\ \E gs \in GridShapes, mb \in 1..MaxBlock, nb \in 1..MaxBlock,
     i \in 0..MaxOff, j \in 0..MaxOff, r \in 0..MaxGlob, c \in 0..MaxGlob :
    \E w \in 0..(gs[1] * gs[2] - 1) :
      LET m == Handle(BLACSGrid(gs[1], gs[2], w), mb, nb, i, j)
      IN  idx' = [op |-> "g2l", m |-> m, r |-> r, c |-> c,
                  local |-> is_local(m, r, c),
                  pr |-> rowg2p(m, r), pc |-> colg2p(m, c),
                  lr |-> rowg2l(m, r), lc |-> colg2l(m, c),
                  gr |-> rowl2g(m, rowg2l(m, r)),
                  gc |-> coll2g(m, colg2l(m, c))]
  /\ UNCHANGED <<lay, objVars, xVars, numVars>>

IdxNext == MapLocal \/ MapGlobal

SpecIdx == IdxInit /\ [][IdxNext]_vars

(***************************************************************************)
(* C2: index mapping round trip.  For every block size, grid extent,       *)
(* owner coordinate p and local index l, rowg2l(rowl2g(l)) = l and         *)
(* rowg2p(rowl2g(l)) = p on the worker with coordinate p, and the same for *)
(* colg2l / coll2g / colg2p.                                               *)
(***************************************************************************)
C2_RoundTrip ==
  idx.op = "l2g" =>
    /\ idx.lr = idx.l /\ idx.pr = prow(idx.m)
    /\ idx.lc = idx.c /\ idx.pc = pcol(idx.m)

C2_Witness ==
  /\ idx.op = "l2g" /\ idx.l = 5 /\ idx.c = 4
  /\ nprows(idx.m) = 2 /\ prow(idx.m) = 1 /\ MB(idx.m) = 2
  /\ idx.gr > idx.l /\ idx.lr = 5 /\ idx.pr = 1

(***************************************************************************)
(* C3: the mappings are mutually inverse on owned indices.  For every      *)
(* global index g whose owner is the calling worker,                       *)
(* rowl2g(rowg2l(g)) = g (and coll2g(colg2l(g)) = g).                      *)
(***************************************************************************)
C3_InverseOnOwned ==
  idx.op = "g2l" =>
    /\ (idx.pr = prow(idx.m) => idx.gr = idx.r)
    /\ (idx.pc = pcol(idx.m) => idx.gc = idx.c)

C3_Witness ==
  /\ idx.op = "g2l" /\ idx.r = 7 /\ idx.local
  /\ nprows(idx.m) = 2 /\ prow(idx.m) = 1 /\ MB(idx.m) = 2
  /\ idx.lr = 3 /\ idx.gr = 7

(***************************************************************************)
(* Specification SpecLay: DistributedMatrix(g, M, N, MB, NB) called by     *)
(* every worker of the pool, for bounded shapes, block sizes and grids.    *)
(***************************************************************************)
LayInit == idx = NoProbe /\ lay = NoLayout /\ ObjIdle /\ XIdle /\ NumIdle

Construct ==
  /\ lay.op = "none"
  /\ \E gs \in GridShapes, M \in 0..MaxDim, N \in 0..MaxDim,
        mb \in 0..MaxBlock, nb \in 0..MaxBlock :
       lay' = [op |-> "ctor", M |-> M, N |-> N,
               nprows |-> gs[1], npcols |-> gs[2],
               mat |-> [w \in Workers |->
                          DistributedMatrix5(BLACSGrid(gs[1], gs[2], w),
                                             M, N, mb, nb)]]
  /\ UNCHANGED <<idx, objVars, xVars, numVars>>

LayNext == Construct

SpecLay == LayInit /\ [][LayNext]_vars

\* the global entries of the matrix, and the workers that hold a part
Entries(M, N) == (0..(M - 1)) \X (0..(N - 1))
ActiveWorkers == {w \in Workers : active(lay.mat[w])}
OwnedRows(m, M) == {r \in 0..(M - 1) : rowg2p(m, r) = prow(m)}
OwnedCols(m, N) == {c \in 0..(N - 1) : colg2p(m, c) = pcol(m)}

(***************************************************************************)
(* C4: block-cyclic ownership is a partition.  Each global entry (r, c) is *)
(* is_local on exactly one grid coordinate, and on each worker rowg2l and  *)
(* colg2l map the global rows / columns it owns one-to-one onto            *)
(* [0, lrows) and [0, lcols), so every owned entry has its own slot in the *)
(* buffer of lrows*lcols elements.                                         *)
(***************************************************************************)
C4_Partition ==
  lay.op = "ctor" =>
    /\ \A e \in Entries(lay.M, lay.N) :
         Cardinality({w \in ActiveWorkers :
                        is_local(lay.mat[w], e[1], e[2])}) = 1
    /\ \A w \in ActiveWorkers :
         LET m == lay.mat[w]
         IN  /\ {rowg2l(m, r) : r \in OwnedRows(m, lay.M)} = 0..(lrows(m) - 1)
             /\ Cardinality(OwnedRows(m, lay.M)) = lrows(m)
             /\ {colg2l(m, c) : c \in OwnedCols(m, lay.N)} = 0..(lcols(m) - 1)
             /\ Cardinality(OwnedCols(m, lay.N)) = lcols(m)
             /\ {At(m, rowg2l(m, e[1]), colg2l(m, e[2])) :
                    e \in {x \in Entries(lay.M, lay.N) : is_local(m, x[1], x[2])}}
                  = 0..(lrows(m) * lcols(m) - 1)

C4_Witness ==
  /\ lay.op = "ctor" /\ lay.M = 5 /\ lay.N = 3
  /\ lay.nprows = 2 /\ lay.npcols = 2
  /\ MB(lay.mat[0]) = 2 /\ NB(lay.mat[0]) = 1
  /\ lrows(lay.mat[0]) = 3 /\ lrows(lay.mat[1]) = 2
  /\ lcols(lay.mat[0]) = 2 /\ lcols(lay.mat[2]) = 1

(***************************************************************************)
(* Specification SpecObj: the life cycle of the DistributedMatrix objects  *)
(* of one worker.  A buffer is a cell of heap; data_ is its index, 0 for   *)
(* nullptr.  An operation that runs into undefined behaviour sets fault    *)
(* and the worker stops there.                                             *)
(***************************************************************************)
G == BLACSGrid(env.nprows, env.npcols, env.w)
IsLive(s) == objs[s] # Dead
Size(m) == lrows(m) * lcols(m)
CanAlloc == Len(heap) < MaxAlloc
NextPtr(h) == Len(h) + 1

\* new scalar_t[n]
New(h, n) == Append(h, [st |-> "live", vals |-> [k \in 1..n |-> Uninit]])

\* delete[] p
Delete(h, p) ==
  IF p = 0 THEN h ELSE [h EXCEPT ![p] = [st |-> "freed", vals |-> <<>>]]
BadDelete(h, p) == p # 0 /\ h[p].st # "live"

\* a read or write of n elements through pointer p
BadAccess(h, p, n) == n > 0 /\ (p = 0 \/ h[p].st = "freed" \/ Len(h[p].vals) < n)

\* the first n elements behind pointer p
Vals(h, p, n) == [k \in 1..n |-> h[p].vals[k]]

\* the state a DistributedMatrix is left in by clear()
Cleared(m) ==
  [m EXCEPT !.data = 0, !.lrows = 0, !.lcols = 0,
            !.desc = descset(0, 0, MB(m), NB(m), 0, 0, ctxt(m), 1)]

\* one more operation of the worker
Tick == nops < MaxOps /\ nops' = nops + 1 /\ UNCHANGED <<idx, lay, xVars, numVars>>

ObjInit ==
  /\ idx = NoProbe /\ lay = NoLayout /\ XIdle /\ NumIdle
  /\ \E gs \in GridShapes, w \in {0, P - 1} :
       env = [w |-> w, nprows |-> gs[1], npcols |-> gs[2]]
  /\ objs = [s \in Slots |-> Dead]
  /\ heap = EmptyHeap
  /\ fault = "none"
  /\ nops = 0

\* DistributedMatrix()
NewDefault(s) ==
  /\ Tick
  /\ fault = "none" /\ ~IsLive(s)
  /\ objs' = [objs EXCEPT ![s] =
                DistributedMatrix5(NoGrid, 0, 0, default_MB, default_NB)]
  /\ UNCHANGED <<env, heap, fault>>

\* DistributedMatrix(g, M, N) and DistributedMatrix(g, M, N, MB, NB)
NewShape(s) ==
  /\ Tick
  /\ fault = "none" /\ ~IsLive(s)
  /\ \E M \in ObjDims, N \in ObjDims, mb \in {0, default_MB} :
       LET m == DistributedMatrix5(G, M, N, mb, mb)
       IN  IF active(m)
           THEN /\ CanAlloc
                /\ heap' = New(heap, Size(m))
                /\ objs' = [objs EXCEPT ![s] = [m EXCEPT !.data = NextPtr(heap)]]
           ELSE /\ objs' = [objs EXCEPT ![s] = m]
                /\ heap' = heap
  /\ UNCHANGED <<env, fault>>

\* DistributedMatrix(g, desc[9])
NewDesc(s) ==
  /\ Tick
  /\ fault = "none" /\ ~IsLive(s)
  /\ \E M \in ObjDims, N \in ObjDims, mb \in {default_MB} :
       LET like == DistributedMatrix5(G, M, N, mb, mb)
           m == [like EXCEPT !.desc = descset(M, N, mb, mb, 0, 0, G.ctxt,
                                              Max(1, like.lrows))]
       IN  IF active(m)
           THEN /\ objs' = [objs EXCEPT ![s] =
                              [m EXCEPT !.lrows = 0, !.lcols = 0, !.data = 0]]
                /\ UNCHANGED <<heap, fault>>
           ELSE \* prow() / nprows() of a grid the worker is not in: undefined
                \/ /\ fault' = "coordinates of an inactive grid"
                   /\ UNCHANGED <<objs, heap>>
                \/ \E lr \in 0..1, lc \in 0..1 :
                     IF lr * lc # 0
                     THEN /\ CanAlloc
                          /\ heap' = New(heap, lr * lc)
                          /\ objs' = [objs EXCEPT ![s] =
                                        [m EXCEPT !.lrows = lr, !.lcols = lc,
                                                  !.data = NextPtr(heap)]]
                          /\ fault' = fault
                     ELSE /\ objs' = [objs EXCEPT ![s] =
                                        [m EXCEPT !.lrows = lr, !.lcols = lc,
                                                  !.data = 0]]
                          /\ UNCHANGED <<heap, fault>>
  /\ UNCHANGED env

\* DistributedMatrix(const DistributedMatrix& m): s is built from t
CopyConstruct(s, t) ==
  /\ Tick
  /\ fault = "none" /\ ~IsLive(s) /\ IsLive(t) /\ CanAlloc
  /\ LET m == objs[t]
         n == Size(m)
     IN  IF BadAccess(heap, m.data, n)
         THEN /\ fault' = "copy constructor reads a null buffer"
              /\ UNCHANGED <<objs, heap>>
         ELSE /\ heap' = [New(heap, n) EXCEPT ![NextPtr(heap)].vals =
                            Vals(heap, m.data, n)]
              /\ objs' = [objs EXCEPT ![s] = [m EXCEPT !.data = NextPtr(heap)]]
              /\ fault' = fault
  /\ UNCHANGED env

\* DistributedMatrix(DistributedMatrix&& m): s is built from t
MoveConstruct(s, t) ==
  /\ Tick
  /\ fault = "none" /\ ~IsLive(s) /\ IsLive(t)
  /\ objs' = [objs EXCEPT ![s] = objs[t], ![t].data = 0]
  /\ UNCHANGED <<env, heap, fault>>

\* operator=(const DistributedMatrix& m): s = t
CopyAssign(s, t) ==
  /\ Tick
  /\ fault = "none" /\ IsLive(s) /\ IsLive(t) /\ s # t
  /\ LET a == objs[s]
         m == objs[t]
         n == Size(m)
         realloc == lrows(a) # lrows(m) \/ lcols(a) # lcols(m)
         h1 == IF realloc THEN New(Delete(heap, a.data), n) ELSE heap
         d1 == IF realloc THEN NextPtr(Delete(heap, a.data)) ELSE a.data
     IN  /\ realloc => CanAlloc
         /\ IF realloc /\ BadDelete(heap, a.data)
            THEN /\ fault' = "delete[] of a buffer that is not owned"
                 /\ UNCHANGED <<objs, heap>>
            ELSE IF BadAccess(h1, m.data, n) \/ BadAccess(h1, d1, n)
            THEN /\ fault' = "copy assignment through a null buffer"
                 /\ UNCHANGED <<objs, heap>>
            ELSE /\ heap' = IF n > 0
                            THEN [h1 EXCEPT ![d1].vals = Vals(h1, m.data, n)]
                            ELSE h1
                 /\ objs' = [objs EXCEPT ![s] = [m EXCEPT !.data = d1]]
                 /\ fault' = fault
  /\ UNCHANGED env

\* operator=(DistributedMatrix&& m): s = std::move(t)
MoveAssign(s, t) ==
  /\ Tick
  /\ fault = "none" /\ IsLive(s) /\ IsLive(t) /\ s # t
  /\ IF BadDelete(heap, objs[s].data)
     THEN /\ fault' = "delete[] of a buffer that is not owned"
          /\ UNCHANGED <<objs, heap>>
     ELSE /\ heap' = Delete(heap, objs[s].data)
          /\ objs' = [objs EXCEPT ![s] = objs[t], ![t].data = 0]
          /\ fault' = fault
  /\ UNCHANGED env

\* clear()
Clear(s) ==
  /\ Tick
  /\ fault = "none" /\ IsLive(s)
  /\ IF BadDelete(heap, objs[s].data)
     THEN /\ fault' = "delete[] of a buffer that is not owned"
          /\ UNCHANGED <<objs, heap>>
     ELSE /\ heap' = Delete(heap, objs[s].data)
          /\ objs' = [objs EXCEPT ![s] = Cleared(objs[s])]
          /\ fault' = fault
  /\ UNCHANGED env

\* ~DistributedMatrix()
Destroy(s) ==
  /\ Tick
  /\ fault = "none" /\ IsLive(s)
  /\ IF BadDelete(heap, objs[s].data)
     THEN /\ fault' = "delete[] of a buffer that is not owned"
          /\ UNCHANGED <<objs, heap>>
     ELSE /\ heap' = Delete(heap, objs[s].data)
          /\ objs' = [objs EXCEPT ![s] = Dead]
          /\ fault' = fault
  /\ UNCHANGED env

\* fill(a)
Fill(s) ==
  /\ Tick
  /\ fault = "none" /\ IsLive(s) /\ active(objs[s])
  /\ \E v \in FillVals :
       LET m == objs[s]
       IN  IF BadAccess(heap, m.data, Size(m))
           THEN /\ fault' = "fill writes through a null buffer"
                /\ UNCHANGED <<objs, heap>>
           ELSE /\ Size(m) > 0
                /\ heap' = [heap EXCEPT ![m.data].vals =
                              [k \in 1..Size(m) |-> v]]
                /\ UNCHANGED <<objs, fault>>
  /\ UNCHANGED env

(***************************************************************************)
(* resize(m, n) of the matrix a with buffers h: the temporary of the new   *)
(* shape, the copy of the overlapping local rectangle, the move assignment *)
(* into *this and the destruction of the temporary.  Yields the new        *)
(* handle, the new heap and the fault, if any.                             *)
(***************************************************************************)
resize(a, h, M, N) ==
  LET tmp0 == DistributedMatrix5(a.grid, M, N, MB(a), NB(a))
      act == active(tmp0)
      tp == IF act THEN NextPtr(h) ELSE 0
      h0 == IF act THEN New(h, Size(tmp0)) ELSE h
      tmp == [tmp0 EXCEPT !.data = tp]
      nr == Min(lrows(a), lrows(tmp))
      nc == Min(lcols(a), lcols(tmp))
      moved == [k \in 1..Size(tmp) |->
                  LET r == (k - 1) % Max(1, ld(tmp))
                      c == (k - 1) \div Max(1, ld(tmp))
                  IN  IF r < nr /\ c < nc
                      THEN h0[a.data].vals[At(a, r, c) + 1]
                      ELSE Uninit]
  IN  IF nr * nc > 0 /\ BadAccess(h0, a.data, Size(a))
      THEN [mat |-> a, heap |-> h, fault |-> "resize reads a null buffer"]
      ELSE IF BadDelete(h0, a.data)
      THEN [mat |-> a, heap |-> h,
            fault |-> "delete[] of a buffer that is not owned"]
      ELSE [mat |-> tmp,
            heap |-> Delete(IF act /\ nr * nc > 0
                            THEN [h0 EXCEPT ![tp].vals = moved]
                            ELSE h0, a.data),
            fault |-> "none"]

\* resize(m, n)
Resize(s) ==
  /\ Tick
  /\ fault = "none" /\ IsLive(s)
  /\ active(objs[s]) => CanAlloc
  /\ \E M \in ObjDims, N \in ObjDims :
       LET res == resize(objs[s], heap, M, N)
       IN  /\ objs' = [objs EXCEPT ![s] = res.mat]
           /\ heap' = res.heap
           /\ fault' = res.fault
  /\ UNCHANGED env

\* the local columns of m that hold a global column >= first
ColsFrom(m, first) == {c \in 0..(lcols(m) - 1) : coll2g(m, c) >= first}

\* hconcat(b): s.hconcat(t)
HConcat(s, t) ==
  /\ Tick
  /\ fault = "none" /\ IsLive(s) /\ IsLive(t) /\ s # t
  /\ rows(objs[s]) = rows(objs[t]) /\ objs[s].grid = objs[t].grid
  /\ cols(objs[s]) + cols(objs[t]) <= 2 * MaxObjDim
  /\ active(objs[s]) => CanAlloc
  /\ LET my_cols == cols(objs[s])
         res == resize(objs[s], heap, rows(objs[s]), my_cols + cols(objs[t]))
         a == res.mat
         written == {At(a, r, c) + 1 :
                       r \in 0..(lrows(a) - 1), c \in ColsFrom(a, my_cols)}
     IN  /\ objs' = [objs EXCEPT ![s] = a]
         /\ fault' = res.fault
         /\ heap' = IF res.fault = "none" /\ active(a) /\ written # {}
                    THEN [res.heap EXCEPT ![a.data].vals =
                            [k \in 1..Size(a) |->
                               IF k \in written THEN Remote ELSE @[k]]]
                    ELSE res.heap
  /\ UNCHANGED env

\* dense_and_clear(): the buffer goes to the DenseMatrix that is returned
DenseAndClear(s) ==
  /\ Tick
  /\ fault = "none" /\ IsLive(s)
  /\ heap' = IF objs[s].data = 0 THEN heap
             ELSE [heap EXCEPT ![objs[s].data].st = "dense"]
  /\ objs' = [objs EXCEPT ![s] = Cleared(objs[s])]
  /\ UNCHANGED <<env, fault>>

ObjNext ==
  \/ \E s \in Slots : NewDefault(s)
  \/ \E s \in Slots : NewShape(s)
  \/ \E s \in Slots : NewDesc(s)
  \/ \E s \in Slots : Clear(s)
  \/ \E s \in Slots : Destroy(s)
  \/ \E s \in Slots : Fill(s)
  \/ \E s \in Slots : Resize(s)
  \/ \E s \in Slots : DenseAndClear(s)
  \/ \E s \in Slots, t \in Slots : CopyConstruct(s, t)
  \/ \E s \in Slots, t \in Slots : MoveConstruct(s, t)
  \/ \E s \in Slots, t \in Slots : CopyAssign(s, t)
  \/ \E s \in Slots, t \in Slots : MoveAssign(s, t)
  \/ \E s \in Slots, t \in Slots : HConcat(s, t)

SpecObj == ObjInit /\ [][ObjNext]_vars

LiveSlots == {s \in Slots : IsLive(s)}

(***************************************************************************)
(* C9: inactive-worker invariant.  However a DistributedMatrix was         *)
(* constructed and after any sequence of clear, resize and assignment, a   *)
(* worker that is inactive in the matrix's grid has lrows = 0, lcols = 0   *)
(* and a null buffer, and an active worker's lrows / lcols are its         *)
(* block-cyclic share of the global shape.                                 *)
(***************************************************************************)
C9_InactiveInvariant ==
  \A s \in LiveSlots :
    LET m == objs[s]
    IN  IF active(m)
        THEN /\ lrows(m) = numroc(rows(m), MB(m), prow(m), 0, nprows(m))
             /\ lcols(m) = numroc(cols(m), NB(m), pcol(m), 0, npcols(m))
        ELSE lrows(m) = 0 /\ lcols(m) = 0 /\ m.data = 0

(***************************************************************************)
(* C10: buffer-size invariant.  In every reachable state of an owning      *)
(* DistributedMatrix the buffer it holds has exactly lrows*lcols elements; *)
(* in particular lrows*lcols > 0 implies a non-null buffer.                *)
(***************************************************************************)
C10_BufferSize ==
  \A s \in LiveSlots :
    LET m == objs[s]
    IN  IF m.data = 0 THEN Size(m) = 0
        ELSE heap[m.data].st = "live" /\ Len(heap[m.data].vals) = Size(m)

(***************************************************************************)
(* Specification SpecX: extract_rows / extract_cols, and hconcat before    *)
(* extract_cols, called by every worker of the pool on one distributed     *)
(* matrix.  Worker w holds its part of the matrix A (and of B) in its own  *)
(* heap; entry (i, j) of A holds ValA(i, j), entry (i, j) of B holds       *)
(* ValB(i, j).  A message is a record of net: the state of the send        *)
(* request and the elements of the send buffer.                            *)
(***************************************************************************)
ValA(i, j) == 100 + 10 * i + j
ValB(i, j) == 200 + 10 * i + j

\* the block sizes A is built with: the default and another
XBlocks == {default_MB, default_MB + 1}

\* the index lists of at most n entries over S, and the list [a, b)
ListsOf(S, n) == UNION {[1..k -> S] : k \in 0..n}
Range(a, b) == [k \in 1..(b - a) |-> a + k - 1]

Runs ==
  {[kind |-> kind, nprows |-> gs[1], npcols |-> gs[2],
    M |-> XDim, N |-> XDim, N2 |-> 0, mb |-> mb, Ir |-> Ir, cat |-> FALSE] :
     kind \in {"rows", "cols"}, gs \in GridShapes, mb \in XBlocks,
     Ir \in ListsOf(0..(XDim - 1), MaxIdx)}
  \cup
  {[kind |-> "cat", nprows |-> gs[1], npcols |-> gs[2],
    M |-> XDim, N |-> n[1], N2 |-> n[2], mb |-> mb,
    Ir |-> IF first THEN Range(0, n[1]) ELSE Range(n[1], n[1] + n[2]),
    cat |-> FALSE] :
     gs \in GridShapes, mb \in XBlocks, n \in (1..MaxCat) \X (1..MaxCat),
     first \in BOOLEAN}

\* extract_rows runs along the rows, extract_cols along the columns
Dir == IF run.kind = "rows" THEN "rows" ELSE "cols"

\* the global contents of an M x N matrix: A and B
ContentsA(M, N) == [i \in 0..(M - 1), j \in 0..(N - 1) |-> ValA(i, j)]
ContentsB(M, N) == [i \in 0..(M - 1), j \in 0..(N - 1) |-> ValB(i, j)]

\* the buffer of the matrix m once every local entry was set to Val at its
\* global position
Filled(m, Val) ==
  [k \in 1..Size(m) |->
     Val[rowl2g(m, (k - 1) % Max(1, ld(m))),
         coll2g(m, (k - 1) \div Max(1, ld(m)))]]

\* DistributedMatrix(g, M, N, MB, NB) on the heap h, then filled
Build(h, g, M, N, mb, nb, Val) ==
  LET m == DistributedMatrix5(g, M, N, mb, nb)
  IN  IF active(m)
      THEN [mat |-> [m EXCEPT !.data = NextPtr(h)],
            heap |-> Append(h, [st |-> "live", vals |-> Filled(m, Val)])]
      ELSE [mat |-> m, heap |-> h]

WorkerInit(r, w) ==
  LET g == BLACSGrid(r.nprows, r.npcols, w)
      a == Build(EmptyHeap, g, r.M, r.N, r.mb, r.mb, ContentsA(r.M, r.N))
      b == IF r.kind = "cat"
           THEN Build(a.heap, g, r.M, r.N2, r.mb, r.mb, ContentsB(r.M, r.N2))
           ELSE [mat |-> Dead, heap |-> a.heap]
  IN  [pc |-> "idle", heap |-> b.heap, A |-> a.mat, B |-> b.mat,
       tmp |-> Dead, rbuf |-> <<>>, rsizes |-> <<>>, prbuf |-> <<>>]

NoMsg == [st |-> "none", data |-> <<>>]

XInit ==
  /\ idx = NoProbe /\ lay = NoLayout /\ ObjIdle /\ NumIdle
  /\ run \in Runs
  /\ wk = [w \in Workers |-> WorkerInit(run, w)]
  /\ net = [s \in Workers |-> [d \in Workers |-> NoMsg]]

(***************************************************************************)
(* The two extractions differ in the dimension they run along: dir is      *)
(* "rows" for extract_rows and "cols" for extract_cols.                    *)
(***************************************************************************)
\* rowg2p / colg2p, rowg2l / colg2l, prow() / pcol(), nprows() / npcols()
g2p(a, dir, x) == IF dir = "rows" THEN rowg2p(a, x) ELSE colg2p(a, x)
g2l(a, dir, x) == IF dir = "rows" THEN rowg2l(a, x) ELSE colg2l(a, x)
me(a, dir) == IF dir = "rows" THEN prow(a) ELSE pcol(a)
np(a, dir) == IF dir = "rows" THEN nprows(a) ELSE npcols(a)

\* lcols_ / lrows_: the local elements of one row / column
span(a, dir) == IF dir = "rows" THEN lcols(a) ELSE lrows(a)

\* operator()(l, k) / operator()(k, l): element k of local row / column l
Elem(a, dir, l, k) == IF dir = "rows" THEN At(a, l, k) ELSE At(a, k, l)

\* the rank of the peer at p, were the ranks laid out row by row
peer_rowmajor(a, dir, p) ==
  IF dir = "rows" THEN p * npcols(a) + pcol(a) ELSE prow(a) * npcols(a) + p

\* p+pcol()*nprows() / prow()+p*nprows(): the rank of the peer at p
peer(a, dir, p) ==
  IF dir = "rows" THEN p + pcol(a) * nprows(a) ELSE prow(a) + p * nprows(a)
Peers(a, dir) == (0..(np(a, dir) - 1)) \ {me(a, dir)}

\* (p < prow()) ? sreq+p : sreq+p-1, likewise rreq: the request slot of
\* the peer at p
reqslot(a, dir, p) == IF p < me(a, dir) THEN p ELSE p - 1

\* DistributedMatrix tmp(grid(), Ir.size(), cols()) / (grid(), rows(), Jc.size())
Tmp(a, dir, Ir) ==
  IF dir = "rows" THEN DistributedMatrix3(a.grid, Len(Ir), cols(a))
  ELSE DistributedMatrix3(a.grid, rows(a), Len(Ir))

\* rsizes[p]: span elements for every entry of the list that p owns
rsizes_perentry(a, dir, Ir) ==
  [p \in 0..(np(a, dir) - 1) |->
     Cardinality({r \in 0..(Len(Ir) - 1) :
                    /\ g2p(a, dir, Ir[r + 1]) # me(a, dir)
                    /\ g2p(a, dir, Ir[r + 1]) = p})]
rsizes(a, dir, Ir) ==
  [p \in 0..(np(a, dir) - 1) |->
     span(a, dir) * Cardinality({r \in 0..(Len(Ir) - 1) :
                                   /\ g2p(a, dir, Ir[r + 1]) # me(a, dir)
                                   /\ g2p(a, dir, Ir[r + 1]) = p})]

\* the elements of the local row / column that holds global gr
Line(a, avals, dir, gr) ==
  [k \in 1..span(a, dir) |-> avals[Elem(a, dir, g2l(a, dir, gr), k - 1) + 1]]

\* tmp(tmpr, c) = src[c] for every c: the new buffer of tmp
Store(t, tvals, dir, l, src) ==
  [k \in 1..Len(tvals) |->
     IF \E c \in 1..Len(src) : Elem(t, dir, l, c - 1) + 1 = k
     THEN src[CHOOSE c \in 1..Len(src) : Elem(t, dir, l, c - 1) + 1 = k]
     ELSE tvals[k]]

\* one of these writes lies outside the buffer of tmp
Outside(t, tvals, dir, l, n) ==
  \E c \in 1..n : Elem(t, dir, l, c - 1) + 1 > Len(tvals)

\* entry r of the list is owned here and stays here
KeptHere(a, dir, Ir, r) ==
  g2p(a, dir, Ir[r + 1]) = me(a, dir) /\ g2p(a, dir, r) = me(a, dir)

\* the first loop, from entry r on: the local copies into tmp
RECURSIVE localcopy(_, _, _, _, _, _, _)
localcopy(a, avals, t, tvals, dir, Ir, r) ==
  IF r >= Len(Ir) THEN [vals |-> tvals, oob |-> FALSE]
  ELSE IF KeptHere(a, dir, Ir, r)
  THEN LET l == g2l(t, dir, r)
           src == Line(a, avals, dir, Ir[r + 1])
           rest == localcopy(a, avals, t, Store(t, tvals, dir, l, src),
                             dir, Ir, r + 1)
       IN  [vals |-> rest.vals,
            oob |-> rest.oob \/ Outside(t, tvals, dir, l, Len(src))]
  ELSE localcopy(a, avals, t, tvals, dir, Ir, r + 1)

\* entry r of the list is owned here and goes to the peer at p
SendsTo(a, dir, Ir, r, p) ==
  /\ g2p(a, dir, Ir[r + 1]) = me(a, dir)
  /\ g2p(a, dir, r) = p /\ p # me(a, dir)

\* the second loop, from entry r on: sbuf[p]
RECURSIVE pack(_, _, _, _, _, _)
pack(a, avals, dir, Ir, p, r) ==
  IF r >= Len(Ir) THEN <<>>
  ELSE (IF SendsTo(a, dir, Ir, r, p)
        THEN Line(a, avals, dir, Ir[r + 1])
        ELSE <<>>) \o pack(a, avals, dir, Ir, p, r + 1)

\* entry r of the list is owned by a peer and comes here
ComesHere(a, dir, Ir, r) ==
  g2p(a, dir, Ir[r + 1]) # me(a, dir) /\ g2p(a, dir, r) = me(a, dir)

\* the third loop, from entry r on: tmp(tmpr, c) = *(prbuf[owner]++)
RECURSIVE unpack(_, _, _, _, _, _, _, _)
unpack(a, t, tvals, rbuf, prbuf, dir, Ir, r) ==
  IF r >= Len(Ir) THEN [vals |-> tvals, oob |-> FALSE, prbuf |-> prbuf]
  ELSE IF ComesHere(a, dir, Ir, r)
  THEN LET owner == g2p(a, dir, Ir[r + 1])
           l == g2l(t, dir, r)
           n == span(a, dir)
           src == [k \in 1..n |->
                     IF prbuf[owner] + k <= Len(rbuf[owner])
                     THEN rbuf[owner][prbuf[owner] + k] ELSE Uninit]
           rest == unpack(a, t, Store(t, tvals, dir, l, src), rbuf,
                          [prbuf EXCEPT ![owner] = @ + n], dir, Ir, r + 1)
       IN  [vals |-> rest.vals,
            oob |-> \/ rest.oob
                    \/ Outside(t, tvals, dir, l, n)
                    \/ prbuf[owner] + n > Len(rbuf[owner]),
            prbuf |-> rest.prbuf]
  ELSE unpack(a, t, tvals, rbuf, prbuf, dir, Ir, r + 1)

(***************************************************************************)
(* The actions of SpecX.  A worker that wrote outside the buffer of tmp    *)
(* ran into undefined behaviour: it either crashes there or goes on, the   *)
(* stray elements lost.                                                    *)
(***************************************************************************)
\* the value of global entry (i, j) of a matrix, given every worker's
\* handle and heap
GlobalAt(ms, hs, i, j) ==
  LET w == CHOOSE v \in Workers : active(ms[v]) /\ is_local(ms[v], i, j)
  IN  hs[w][ms[w].data].vals[At(ms[w], rowg2l(ms[w], i), colg2l(ms[w], j)) + 1]

\* pgemr2d(m, n, a, ia, ja, b, ib, jb) as one worker sees it: the new
\* buffer bvals of its part b of the target (offsets from 0)
pgemr2d(m, n, ms, hs, ia, ja, b, bvals, ib, jb) ==
  [k \in 1..Len(bvals) |->
     LET hit == {e \in (0..(m - 1)) \X (0..(n - 1)) :
                   /\ is_local(b, ib + e[1], jb + e[2])
                   /\ At(b, rowg2l(b, ib + e[1]), colg2l(b, jb + e[2])) + 1 = k}
     IN  IF hit = {} THEN bvals[k]
         ELSE LET e == CHOOSE x \in hit : TRUE
              IN  GlobalAt(ms, hs, ia + e[1], ja + e[2])]

\* A.hconcat(B), called by all workers: resize, then the redistribution
CanHConcat == run.kind = "cat" /\ ~run.cat
HConcatAll ==
  /\ CanHConcat
  /\ LET my_cols == run.N
         res == [w \in Workers |->
                   resize(wk[w].A, wk[w].heap, rows(wk[w].A),
                          my_cols + cols(wk[w].B))]
         bs == [w \in Workers |-> wk[w].B]
         hs == [w \in Workers |-> wk[w].heap]
     IN  /\ \A w \in Workers : res[w].fault = "none"
         /\ wk' = [w \in Workers |->
                     LET a == res[w].mat
                     IN  IF active(a)
                         THEN [wk[w] EXCEPT
                                 !.A = a,
                                 !.heap = [res[w].heap EXCEPT ![a.data].vals =
                                             pgemr2d(rows(a), cols(bs[w]), bs, hs,
                                                     0, 0, a, @, 0, my_cols)]]
                         ELSE [wk[w] EXCEPT !.A = a, !.heap = res[w].heap]]
  /\ run' = [run EXCEPT !.cat = TRUE]
  /\ UNCHANGED <<idx, lay, objVars, numVars, net>>

\* extract_rows(Ir) / extract_cols(Jc) up to the MPI_Waitall over the
\* receives: tmp, the sizes, the local copies, the send buffers, and the
\* MPI_Isend and MPI_Irecv for every peer
CanCall(w) == wk[w].pc = "idle" /\ (run.kind = "cat" => run.cat)
Call(w) ==
  /\ CanCall(w)
  /\ LET a == wk[w].A
         Ir == run.Ir
         t0 == Tmp(a, Dir, Ir)
     IN  IF ~active(a)
         THEN /\ wk' = [wk EXCEPT ![w].pc = "done", ![w].tmp = t0]
              /\ net' = net
         ELSE LET h0 == New(wk[w].heap, Size(t0))
                  t == [t0 EXCEPT !.data = NextPtr(wk[w].heap)]
                  avals == wk[w].heap[a.data].vals
                  lc == localcopy(a, avals, t, h0[t.data].vals, Dir, Ir, 0)
                  rs == rsizes(a, Dir, Ir)
              IN  \/ /\ wk' = [wk EXCEPT ![w] =
                                [@ EXCEPT
                                   !.pc = "posted",
                                   !.heap = [h0 EXCEPT ![t.data].vals = lc.vals],
                                   !.tmp = t,
                                   !.rsizes = rs,
                                   !.rbuf = [p \in DOMAIN rs |->
                                               [k \in 1..rs[p] |-> Zero]]]]
                     /\ net' = [net EXCEPT ![w] =
                                  [d \in Workers |->
                                     IF \E p \in Peers(a, Dir) : peer(a, Dir, p) = d
                                     THEN [st |-> "posted",
                                           data |-> pack(a, avals, Dir, Ir,
                                                         CHOOSE p \in Peers(a, Dir) :
                                                           peer(a, Dir, p) = d, 0)]
                                     ELSE @[d]]]
                  \/ /\ lc.oob
                     /\ wk' = [wk EXCEPT ![w].pc = "crashed"]
                     /\ net' = net
  /\ UNCHANGED <<idx, lay, objVars, numVars, run>>

\* the MPI library completes the send s -> d before the receive matched
CanBuffer(s, d) == net[s][d].st = "posted"
Buffer(s, d) ==
  /\ CanBuffer(s, d)
  /\ net' = [net EXCEPT ![s][d].st = "buffered"]
  /\ UNCHANGED <<idx, lay, objVars, numVars, run, wk>>

\* the message s -> d arrives in rbuf of d, whose receive is posted
CanDeliver(s, d) ==
  net[s][d].st \in {"posted", "buffered"} /\ wk[d].pc = "posted"
Deliver(s, d) ==
  /\ CanDeliver(s, d)
  /\ LET from == me(wk[s].A, Dir)
         data == net[s][d].data
         rb == wk[d].rbuf[from]
     IN  IF Len(data) > Len(rb)
         THEN \* MPI_ERR_TRUNCATE: fatal
              wk' = [wk EXCEPT ![d].pc = "crashed"]
         ELSE wk' = [wk EXCEPT ![d].rbuf[from] =
                       [k \in 1..Len(rb) |->
                          IF k <= Len(data) THEN data[k] ELSE rb[k]]]
  /\ net' = [net EXCEPT ![s][d].st = "delivered"]
  /\ UNCHANGED <<idx, lay, objVars, numVars, run>>

\* MPI_Waitall(rreq) returns: every receive of w is complete
Waitall_rreq_none(w) == TRUE
Waitall_rreq(w) ==
  \A p \in Peers(wk[w].A, Dir) : net[peer(wk[w].A, Dir, p)][w].st = "delivered"

\* MPI_Waitall(sreq) returns: every send of w is complete
Waitall_sreq(w) ==
  \A p \in Peers(wk[w].A, Dir) :
    net[w][peer(wk[w].A, Dir, p)].st \in {"buffered", "delivered"}

\* the receive buffers are read without waiting for the receives
CanWaitRecv_nowait(w) == wk[w].pc = "posted"

\* MPI_Waitall(rreq), then the receive buffers are read into tmp
CanWaitRecv(w) == wk[w].pc = "posted" /\ Waitall_rreq(w)
WaitRecv(w) ==
  /\ CanWaitRecv(w)
  /\ LET a == wk[w].A
         t == wk[w].tmp
         u == unpack(a, t, wk[w].heap[t.data].vals, wk[w].rbuf,
                     [p \in DOMAIN wk[w].rbuf |-> 0], Dir, run.Ir, 0)
     IN  \/ wk' = [wk EXCEPT ![w].pc = "unpacked",
                             ![w].heap[t.data].vals = u.vals,
                             ![w].prbuf = u.prbuf]
         \/ /\ u.oob
            /\ wk' = [wk EXCEPT ![w].pc = "crashed"]
  /\ UNCHANGED <<idx, lay, objVars, numVars, run, net>>

\* MPI_Waitall(sreq), delete[] sreq, return tmp (sbuf and rbuf go)
CanWaitSend(w) == wk[w].pc = "unpacked" /\ Waitall_sreq(w)
WaitSend(w) ==
  /\ CanWaitSend(w)
  /\ wk' = [wk EXCEPT ![w].pc = "done", ![w].rbuf = <<>>]
  /\ UNCHANGED <<idx, lay, objVars, numVars, run, net>>

XNext ==
  \/ HConcatAll
  \/ \E w \in Workers : Call(w)
  \/ \E s \in Workers, d \in Workers : Buffer(s, d)
  \/ \E s \in Workers, d \in Workers : Deliver(s, d)
  \/ \E w \in Workers : WaitRecv(w)
  \/ \E w \in Workers : WaitSend(w)

SpecX == XInit /\ [][XNext]_vars

\* some step of the exchange can be taken
CanStep ==
  \/ CanHConcat
  \/ \E w \in Workers : CanCall(w) \/ CanWaitRecv(w) \/ CanWaitSend(w)
  \/ \E s \in Workers, d \in Workers : CanBuffer(s, d) \/ CanDeliver(s, d)

AllReturned == \A w \in Workers : wk[w].pc = "done"

\* global entry (i, j) of the matrix worker w returned, if it is local
ResultAt(w, i, j) ==
  LET t == wk[w].tmp
      k == At(t, rowg2l(t, i), colg2l(t, j)) + 1
      vals == wk[w].heap[t.data].vals
  IN  IF k <= Len(vals) THEN vals[k] ELSE Uninit

\* the matrix the workers returned has M rows and N columns and holds
\* Want[i, j] at global (i, j)
Returned(M, N, Want) ==
  \A w \in Workers :
    LET t == wk[w].tmp
    IN  /\ rows(t) = M /\ cols(t) = N
        /\ active(t) =>
             \A i \in 0..(M - 1), j \in 0..(N - 1) :
               is_local(t, i, j) => ResultAt(w, i, j) = Want[i, j]

(***************************************************************************)
(* C1: extract_rows.  When all workers called extract_rows(Ir) on A, for   *)
(* any grid, block sizes and index list, the matrix returned has           *)
(* Ir.size() rows and A.cols() columns and its global row i is global row  *)
(* Ir[i] of A.                                                             *)
(***************************************************************************)
C1_WantRow ==
  [i \in 0..(Len(run.Ir) - 1), j \in 0..(run.N - 1) |-> ValA(run.Ir[i + 1], j)]
C1_ExtractRows ==
  (run.kind = "rows" /\ AllReturned) =>
     Returned(Len(run.Ir), run.N, C1_WantRow)

(***************************************************************************)
(* C5: concatenation inverse.  For A and B with the same row count on the  *)
(* same grid, A.hconcat(B) followed by extract_cols of [0, A.cols())       *)
(* returns A, and extract_cols of [A.cols(), A.cols() + B.cols()) returns  *)
(* B, entry for entry.                                                     *)
(***************************************************************************)
C5_WantCol ==
  [i \in 0..(run.M - 1), j \in 0..(Len(run.Ir) - 1) |->
     IF run.Ir[j + 1] < run.N THEN ValA(i, run.Ir[j + 1])
     ELSE ValB(i, run.Ir[j + 1] - run.N)]
C5_ConcatInverse ==
  (run.kind = "cat" /\ AllReturned) =>
     Returned(run.M, Len(run.Ir), C5_WantCol)

\* the messages s -> d of the exchange whose receive d has posted
Posted == {"posted", "unpacked", "done"}
Messages ==
  {m \in Workers \X Workers :
     net[m[1]][m[2]].st # "none" /\ wk[m[2]].pc \in Posted}
Sent(m) == Len(net[m[1]][m[2]].data)
Expected(m) == wk[m[2]].rsizes[me(wk[m[1]].A, Dir)]
Consumed(m) == wk[m[2]].prbuf[me(wk[m[1]].A, Dir)]

(***************************************************************************)
(* C6 as stated: for every ordered pair of peers (s, d) the number of      *)
(* elements the receive d posted for s expects equals the number of        *)
(* elements s sends to d.                                                  *)
(***************************************************************************)
C6_SizesEqual == \A m \in Messages : Expected(m) = Sent(m)

(***************************************************************************)
(* C6 as amended: for every ordered pair of peers (s, d) the number of     *)
(* elements s sends to d never exceeds the number the receive d posted     *)
(* for s expects, and d reads exactly the elements s sent.                 *)
(***************************************************************************)
C6_SizesFit ==
  \A m \in Messages :
    /\ Sent(m) <= Expected(m)
    /\ wk[m[2]].pc \in {"unpacked", "done"} => Consumed(m) = Sent(m)

\* a message of at least one element was sent into a larger receive and read
C6_Witness ==
  \E m \in Messages :
    /\ wk[m[2]].pc = "done"
    /\ Sent(m) > 0 /\ Sent(m) < Expected(m) /\ Consumed(m) = Sent(m)

(***************************************************************************)
(* C7: termination.  When every worker calls the extraction with the same  *)
(* index list every worker returns: as long as one has not returned some   *)
(* step of the exchange can be taken (no step can be taken twice), and     *)
(* once all have returned every send has been matched by its receive.      *)
(***************************************************************************)
C7_Terminates ==
  IF AllReturned
  THEN \A s \in Workers, d \in Workers : net[s][d].st \in {"none", "delivered"}
  ELSE CanStep

(***************************************************************************)
(* C8: ordering.  A worker reads its receive buffers only in a state in    *)
(* which every receive it posted is complete, and it releases its buffers  *)
(* and returns only in a state in which every send it posted is complete.  *)
(***************************************************************************)
RecvsDone(w) ==
  \A s \in Workers :
    (net[w][s].st # "none") => net[s][w].st = "delivered"
SendsDone(w) ==
  \A d \in Workers : net[w][d].st \in {"none", "buffered", "delivered"}
C8_Ordering ==
  [][\A w \in Workers :
       /\ (wk[w].pc = "posted" /\ wk'[w].pc # "posted") => RecvsDone(w)
       /\ (wk[w].pc # "done" /\ wk'[w].pc = "done") => SendsDone(w)]_vars

\* a worker that exchanged elements with a peer has returned
C8_Witness ==
  \E w \in Workers, s \in Workers :
    /\ wk[w].pc = "done"
    /\ net[s][w].st = "delivered" /\ Len(net[s][w].data) > 0
    /\ net[w][s].st = "delivered" /\ Len(net[w][s].data) > 0

(***************************************************************************)
(* C11: move semantics.  A move construction or move assignment that       *)
(* returns leaves the destination holding the source's former buffer,      *)
(* local extents, descriptor and grid, and leaves the source empty: no     *)
(* buffer and zero local row and column counts.                            *)
(***************************************************************************)
C11_MoveLeavesSourceEmpty ==
  [][\A s \in Slots, t \in Slots :
       (MoveConstruct(s, t) \/ MoveAssign(s, t)) /\ fault' = "none" =>
         /\ objs'[s].data = objs[t].data
         /\ objs'[s].lrows = objs[t].lrows
         /\ objs'[s].lcols = objs[t].lcols
         /\ objs'[s].desc = objs[t].desc
         /\ objs'[s].grid = objs[t].grid
         /\ objs'[t].data = 0
         /\ objs'[t].lrows = 0
         /\ objs'[t].lcols = 0]_vars

(***************************************************************************)
(* Specification SpecView: one worker holding an owning matrix in slot 1   *)
(* and views (DistributedMatrixWrapper) of it in the other slots.          *)
(***************************************************************************)
OwnerDims == {2, 3}
ViewSlots == {2, 3}
AllSlots == {1} \cup ViewSlots
Sigma == 2       \* the argument of shift
Rand == 7        \* a value drawn from the random generator

ViewInit ==
  /\ idx = NoProbe /\ lay = NoLayout /\ XIdle /\ NumIdle
  /\ \E gs \in GridShapes, w \in {0, P - 1} :
       env = [w |-> w, nprows |-> gs[1], npcols |-> gs[2]]
  /\ objs = [s \in AllSlots |-> Dead]
  /\ heap = EmptyHeap
  /\ fault = "none"
  /\ nops = 0

\* the owner: DistributedMatrix(g, M, N, MB, NB)
NewOwner ==
  /\ Tick
  /\ fault = "none" /\ ~IsLive(1)
  /\ \E M \in OwnerDims, N \in OwnerDims, mb \in XBlocks :
       LET m == DistributedMatrix5(G, M, N, mb, mb)
       IN  IF active(m)
           THEN /\ heap' = New(heap, Size(m))
                /\ objs' = [objs EXCEPT ![1] = [m EXCEPT !.data = NextPtr(heap)]]
           ELSE /\ objs' = [objs EXCEPT ![1] = m]
                /\ heap' = heap
  /\ UNCHANGED <<env, fault>>

\* the owner: DistributedMatrix(g, desc[9])
NewOwnerDesc == NewDesc(1)

\* DistributedMatrixWrapper(m, n, A, i, j) with A the owner
NewView(s) ==
  /\ Tick
  /\ fault = "none" /\ ~IsLive(s) /\ IsLive(1)
  /\ \E i \in 0..MaxOff, j \in 0..MaxOff, m \in 1..2, n \in 1..2 :
       LET A == objs[1]
       IN  /\ ~active(A) \/ (m + i <= rows(A) /\ n + j <= cols(A))
           /\ objs' = [objs EXCEPT ![s] =
                         [grid |-> A.grid, data |-> A.data,
                          lrows |-> lrows(A), lcols |-> lcols(A),
                          desc |-> A.desc, wrapper |-> TRUE,
                          rows_ |-> m, cols_ |-> n, i_ |-> i, j_ |-> j]]
  /\ UNCHANGED <<env, heap, fault>>

\* DistributedMatrixWrapper(const DistributedMatrixWrapper&) and
\* DistributedMatrixWrapper(DistributedMatrixWrapper&&): s is built from t
ViewCopy(s, t) ==
  /\ Tick
  /\ fault = "none" /\ ~IsLive(s) /\ IsLive(t) /\ objs[t].wrapper
  /\ objs' = [objs EXCEPT ![s] = objs[t]]
  /\ UNCHANGED <<env, heap, fault>>

\* operator=(const DistributedMatrixWrapper&) and
\* operator=(DistributedMatrixWrapper&&): s = t
ViewAssign(s, t) ==
  /\ Tick
  /\ fault = "none" /\ IsLive(s) /\ IsLive(t) /\ s # t
  /\ objs[s].wrapper /\ objs[t].wrapper
  /\ objs' = [objs EXCEPT ![s] = objs[t]]
  /\ UNCHANGED <<env, heap, fault>>

\* DistributedMatrixWrapper::clear() without the reset of data_
ViewClear_owning(s) ==
  /\ Tick
  /\ fault = "none" /\ IsLive(s) /\ objs[s].wrapper
  /\ LET v == objs[s]
     IN  /\ heap' = Delete(heap, v.data)
         /\ objs' = [objs EXCEPT ![s] = Cleared(v)]
  /\ UNCHANGED <<env, fault>>

\* DistributedMatrixWrapper::clear()
ViewClear(s) ==
  /\ Tick
  /\ fault = "none" /\ IsLive(s) /\ objs[s].wrapper
  /\ LET v == [objs[s] EXCEPT !.data = 0]
     IN  /\ heap' = Delete(heap, v.data)
         /\ objs' = [objs EXCEPT ![s] = Cleared(v)]
  /\ UNCHANGED <<env, fault>>

\* ~DistributedMatrixWrapper(), then ~DistributedMatrix()
ViewDestroy(s) ==
  /\ Tick
  /\ fault = "none" /\ IsLive(s) /\ objs[s].wrapper
  /\ LET v == [objs[s] EXCEPT !.data = 0]
     IN  /\ heap' = Delete(heap, v.data)
         /\ objs' = [objs EXCEPT ![s] = Dead]
  /\ UNCHANGED <<env, fault>>

\* DistributedMatrixWrapper::resize(m, n)
ViewResize(s) ==
  /\ Tick
  /\ fault = "none" /\ IsLive(s) /\ objs[s].wrapper
  /\ UNCHANGED <<env, objs, heap, fault>>

\* DistributedMatrixWrapper::hconcat(b)
ViewHConcat(s) ==
  /\ Tick
  /\ fault = "none" /\ IsLive(s) /\ objs[s].wrapper /\ IsLive(1)
  /\ UNCHANGED <<env, objs, heap, fault>>

(***************************************************************************)
(* scalapack::infog2l in one dimension: the 1-based local index, on        *)
(* process MYPROC, of the global index GINDX or, when MYPROC does not own  *)
(* GINDX, of the first entry it owns after it.                             *)
(***************************************************************************)
infog2l(GINDX, BLKSZ, NPROCS, MYPROC, ISRC) ==
  LET GCPY == GINDX - 1
      BLK == CDiv(GCPY, BLKSZ)
      SRC == CMod(BLK + ISRC, NPROCS)
      LINDX == (CDiv(BLK, NPROCS) + 1) * BLKSZ + 1
  IN  IF CMod(MYPROC + NPROCS - ISRC, NPROCS) >= CMod(BLK, NPROCS)
      THEN (IF MYPROC = SRC THEN LINDX + CMod(GCPY, BLKSZ) ELSE LINDX) - BLKSZ
      ELSE LINDX

\* DistributedMatrixWrapper::lranges that takes the whole local buffer
lranges_whole(m) ==
  [rlo |-> 0, rhi |-> lrows(m), clo |-> 0, chi |-> lcols(m)]

\* lranges(rlo, rhi, clo, chi) of a DistributedMatrix and of a view
lranges(m) ==
  IF m.wrapper
  THEN [rlo |-> infog2l(I(m), MB(m), nprows(m), prow(m), m.desc[6]) - 1,
        rhi |-> infog2l(I(m) + rows(m), MB(m), nprows(m), prow(m),
                        m.desc[6]) - 1,
        clo |-> infog2l(J(m), NB(m), npcols(m), pcol(m), m.desc[7]) - 1,
        chi |-> infog2l(J(m) + cols(m), NB(m), npcols(m), pcol(m),
                        m.desc[7]) - 1]
  ELSE [rlo |-> 0, rhi |-> lrows(m), clo |-> 0, chi |-> lcols(m)]

\* the local entries (r, c) the loops over lranges visit
Cells(m) ==
  LET R == lranges(m)
  IN  (R.rlo..(R.rhi - 1)) \X (R.clo..(R.chi - 1))

\* those with rowl2g(r) == coll2g(c)
Diagonal(m) == {rc \in Cells(m) : rowl2g(m, rc[1]) = coll2g(m, rc[2])}

(***************************************************************************)
(* The loops of zero, fill, random, eye and shift on the matrix of slot s: *)
(* the entries in targets are assigned Val[old value, <<r, c>>].  guarded  *)
(* tells whether the operation starts with if (!active()) return.          *)
(***************************************************************************)
Assign(s, guarded, targets, Val) ==
  LET m == objs[s]
      pos == {At(m, rc[1], rc[2]) + 1 : rc \in targets}
  IN  IF (guarded /\ ~active(m)) \/ pos = {}
      THEN UNCHANGED <<heap, fault>>
      ELSE IF m.data = 0 \/ heap[m.data].st = "freed"
              \/ \E k \in pos : k < 1 \/ k > Len(heap[m.data].vals)
      THEN /\ fault' = "write outside the buffer"
           /\ heap' = heap
      ELSE /\ heap' = [heap EXCEPT ![m.data].vals =
                         [k \in DOMAIN @ |->
                            IF k \in pos
                            THEN Val[@[k], CHOOSE rc \in targets :
                                             At(m, rc[1], rc[2]) + 1 = k]
                            ELSE @[k]]]
           /\ fault' = fault

\* the values an entry can hold in SpecView
CellVals == {Uninit, Zero, 1, Rand, Uninit + Sigma, Zero + Sigma, 1 + Sigma,
             Rand + Sigma, Zero + 2 * Sigma, 1 + 2 * Sigma, Rand + 2 * Sigma,
             Uninit + 2 * Sigma, Uninit + 3 * Sigma, Zero + 3 * Sigma,
             1 + 3 * Sigma, Rand + 3 * Sigma}
Args == CellVals \X ((-MaxDim..MaxDim) \X (-MaxDim..MaxDim))

\* zero()
zero(s) ==
  /\ Tick
  /\ fault = "none" /\ IsLive(s)
  /\ Assign(s, TRUE, Cells(objs[s]), [a \in Args |-> Zero])
  /\ UNCHANGED <<env, objs>>

\* fill(a)
fill(s) ==
  /\ Tick
  /\ fault = "none" /\ IsLive(s)
  /\ \E v \in FillVals :
       Assign(s, TRUE, Cells(objs[s]), [a \in Args |-> v])
  /\ UNCHANGED <<env, objs>>

\* random() and random(rgen)
random(s) ==
  /\ Tick
  /\ fault = "none" /\ IsLive(s)
  /\ Assign(s, TRUE, Cells(objs[s]), [a \in Args |-> Rand])
  /\ UNCHANGED <<env, objs>>

\* eye()
eye(s) ==
  /\ Tick
  /\ fault = "none" /\ IsLive(s)
  /\ Assign(s, TRUE, Cells(objs[s]),
            [a \in Args |-> IF a[2] \in Diagonal(objs[s]) THEN 1 ELSE Zero])
  /\ UNCHANGED <<env, objs>>

\* shift(sigma)
shift(s) ==
  /\ Tick
  /\ fault = "none" /\ IsLive(s)
  /\ Assign(s, FALSE, Diagonal(objs[s]), [a \in Args |-> a[1] + Sigma])
  /\ UNCHANGED <<env, objs>>

ViewNext ==
  \/ NewOwner
  \/ NewOwnerDesc
  \/ \E s \in ViewSlots : NewView(s)
  \/ \E s \in ViewSlots, t \in ViewSlots : ViewCopy(s, t)
  \/ \E s \in ViewSlots, t \in ViewSlots : ViewAssign(s, t)
  \/ \E s \in ViewSlots : ViewClear(s)
  \/ \E s \in ViewSlots : ViewDestroy(s)
  \/ \E s \in ViewSlots : ViewResize(s)
  \/ \E s \in ViewSlots : ViewHConcat(s)
  \/ \E s \in AllSlots : zero(s)
  \/ \E s \in AllSlots : fill(s)
  \/ \E s \in AllSlots : random(s)
  \/ \E s \in AllSlots : eye(s)
  \/ \E s \in AllSlots : shift(s)

SpecView == ViewInit /\ [][ViewNext]_vars

\* the owning matrix of SpecView, with its buffer
OwnerLive ==
  /\ IsLive(1) /\ objs[1].data # 0
  /\ heap[objs[1].data].st = "live"

InWindow(m, k) ==
  LET r == (k - 1) % ld(m)
      c == (k - 1) \div ld(m)
      gr == indxl2g(r + 1, MB(m), prow(m), 0, nprows(m)) - 1
      gc == indxl2g(c + 1, NB(m), pcol(m), 0, npcols(m)) - 1
  IN  /\ I(m) - 1 <= gr /\ gr < I(m) - 1 + rows(m)
      /\ J(m) - 1 <= gc /\ gc < J(m) - 1 + cols(m)

\* the heap differs from before only inside the window of m
OnlyInWindow(m) ==
  /\ Len(heap') = Len(heap)
  /\ \A p \in 1..Len(heap) :
       /\ heap'[p].st = heap[p].st
       /\ Len(heap'[p].vals) = Len(heap[p].vals)
       /\ \A k \in 1..Len(heap[p].vals) :
            heap'[p].vals[k] # heap[p].vals[k] =>
              p = m.data /\ InWindow(m, k)

(***************************************************************************)
(* C13: zero, fill, eye, shift and random write only local entries inside  *)
(* the lranges rectangle, for a view only entries inside the view's        *)
(* window, and write nothing on a worker that is inactive in the matrix's  *)
(* grid.                                                                   *)
(***************************************************************************)
C13_WritesInWindow ==
  [][\A s \in AllSlots :
       (zero(s) \/ fill(s) \/ eye(s) \/ shift(s) \/ random(s)) =>
         /\ objs' = objs
         /\ IF active(objs[s]) THEN OnlyInWindow(objs[s]) ELSE heap' = heap]_vars

(***************************************************************************)
(* Specification SpecNum: one call of a norm, a factorization or a         *)
(* decomposition, made by every worker of the pool on a matrix with the    *)
(* global contents ContentsA.  A worker's part of a matrix is a record     *)
(* mat, vals: the handle and the local buffer.                             *)
(***************************************************************************)
NumDims == 1..XDim
Calls ==
  [op : {"ready"}, nprows : 1..MaxNP, npcols : 1..MaxNP,
   M : NumDims, N : NumDims, mb : XBlocks, nb : XBlocks]

NumInit ==
  /\ idx = NoProbe /\ lay = NoLayout /\ ObjIdle /\ XIdle
  /\ call \in Calls
  /\ out = NoCall

Abs(x) == IF x >= 0 THEN x ELSE -x
MaxOf(S) == CHOOSE x \in S : \A y \in S : x >= y
MinOf(S) == CHOOSE x \in S : \A y \in S : x <= y
RECURSIVE SumSeq(_)
SumSeq(q) == IF q = <<>> THEN 0 ELSE Head(q) + SumSeq(Tail(q))

\* the grid and the matrix of the call as worker w holds them
NumGrid(w) == BLACSGrid(call.nprows, call.npcols, w)
Local(g, M, N, mb, nb, Val) ==
  LET m == DistributedMatrix5(g, M, N, mb, nb)
  IN  [mat |-> m, vals |-> IF active(m) THEN Filled(m, Val) ELSE <<>>]
NumA(w) ==
  Local(NumGrid(w), call.M, call.N, call.mb, call.nb,
        ContentsA(call.M, call.N))
NumActive == {w \in Workers : active(NumA(w).mat)}

(***************************************************************************)
(* scalapack::plange on the M x N matrix with the global contents Val:     *)
(* '1' the largest column sum, 'I' the largest row sum of magnitudes, 'F'  *)
(* the sum of the squared magnitudes (the integers have no square root).   *)
(***************************************************************************)
plange(kind, M, N, Val) ==
  CASE kind = "1" ->
         MaxOf({SumSeq([i \in 1..M |-> Abs(Val[i - 1, j])]) : j \in 0..(N - 1)})
    [] kind = "I" ->
         MaxOf({SumSeq([j \in 1..N |-> Abs(Val[i, j - 1])]) : i \in 0..(M - 1)})
    [] kind = "F" ->
         SumSeq([k \in 1..(M * N) |->
                   Val[(k - 1) % M, (k - 1) \div M] * Val[(k - 1) % M, (k - 1) \div M]])

\* a norm of A on worker w: the value returned and the kernels called
norm1(w) ==
  IF ~active(NumA(w).mat) THEN [ret |-> -1, kernel |-> <<>>]
  ELSE [ret |-> plange("1", call.M, call.N, ContentsA(call.M, call.N)),
        kernel |-> <<"plange">>]

normI(w) ==
  IF ~active(NumA(w).mat) THEN [ret |-> -1, kernel |-> <<>>]
  ELSE [ret |-> plange("I", call.M, call.N, ContentsA(call.M, call.N)),
        kernel |-> <<"plange">>]

\* normF without the test of active()
normF_unguarded(w) ==
  [ret |-> plange("F", call.M, call.N, ContentsA(call.M, call.N)),
   kernel |-> <<"plange">>]

normF(w) ==
  IF ~active(NumA(w).mat) THEN [ret |-> -1, kernel |-> <<>>]
  ELSE [ret |-> plange("F", call.M, call.N, ContentsA(call.M, call.N)),
        kernel |-> <<"plange">>]

norm(w) == normF(w)

Idle == out = NoCall /\ UNCHANGED <<idx, lay, objVars, xVars, call>>

CallNorm == Idle /\ out' = [op |-> "norm", res |-> [w \in Workers |-> norm(w)]]
CallNorm1 == Idle /\ out' = [op |-> "norm1", res |-> [w \in Workers |-> norm1(w)]]
CallNormI == Idle /\ out' = [op |-> "normI", res |-> [w \in Workers |-> normI(w)]]
CallNormF == Idle /\ out' = [op |-> "normF", res |-> [w \in Workers |-> normF(w)]]

(***************************************************************************)
(* C14: norm, normF, norm1 and normI return -1 on every worker that is     *)
(* inactive in the matrix's grid, without calling the norm kernel, and     *)
(* norm() returns on every worker the value normF() returns.               *)
(***************************************************************************)
C14_NormSentinel ==
  /\ out.op \in {"norm", "norm1", "normI", "normF"} =>
       \A w \in Workers \ NumActive :
         out.res[w].ret = -1 /\ out.res[w].kernel = <<>>
  /\ out.op = "norm" => \A w \in Workers : out.res[w].ret = normF(w).ret

\* norm() was called on a grid that leaves a worker out
C14_Witness ==
  /\ out.op = "norm"
  /\ \E w \in Workers \ NumActive : out.res[w].ret = -1
  /\ \E w \in NumActive : out.res[w].ret > 0

(***************************************************************************)
(* orthogonalize(r_max, r_min).  The kernels are taken from their          *)
(* ScaLAPACK definitions: pgeqrf leaves the triangular factor FactorR in   *)
(* the leading rows x minmn block, pxxgqr replaces that block by FactorQ,  *)
(* gamx2d / gamn2d give every worker of the grid the operand of largest /  *)
(* smallest magnitude.                                                     *)
(***************************************************************************)
Tiny == 1        \* std::numeric_limits<real_t>::min()
Huge == 1000     \* std::numeric_limits<real_t>::max()
EntryVals == {0, 100}
Infos == {0, 1}
minmn == Min(call.M, call.N)

FactorR ==
  [i \in 0..(call.M - 1), j \in 0..(call.N - 1) |->
     IF j >= minmn THEN ValA(i, j)
     ELSE IF i = j THEN (IF i % 2 = 0 THEN -1 ELSE 1) * (4 + 2 * i)
     ELSE 30 + 10 * i + j]
FactorQ ==
  [i \in 0..(call.M - 1), j \in 0..(call.N - 1) |->
     IF j >= minmn THEN ValA(i, j) ELSE 300 + 10 * i + j]

gamx2d(S) == CHOOSE x \in S : \A y \in S : Abs(x) >= Abs(y)
gamn2d(S) == CHOOSE x \in S : \A y \in S : Abs(x) <= Abs(y)

\* global(gi, gi) of the matrix a = [mat, vals]
global(a, r, c) == a.vals[At(a.mat, rowg2l(a.mat, r), colg2l(a.mat, c)) + 1]

\* r_max and r_min of worker w before the reductions; e holds the values
\* the caller passed in
Rloc(w, e) ==
  LET a == [NumA(w) EXCEPT !.vals = Filled(NumA(w).mat, FactorR)]
      diag == {Abs(global(a, gi, gi)) :
                 gi \in {g \in 0..(minmn - 1) : is_local(a.mat, g, g)}}
  IN  IF lrows(a.mat) # 0 /\ lcols(a.mat) # 0
      THEN [max |-> MaxOf({Tiny} \cup diag), min |-> MinOf({Huge} \cup diag)]
      ELSE e

\* DistributedMatrixWrapper tmp(rows(), cols()-rows(), *this, 0, rows())
Trailing(m) ==
  [m EXCEPT !.wrapper = TRUE, !.rows_ = rows(m), !.cols_ = cols(m) - rows(m),
            !.i_ = 0, !.j_ = rows(m)]

\* the buffer vals of the view v after v.zero()
zeroed(v, vals) ==
  LET pos == {At(v, rc[1], rc[2]) + 1 : rc \in Cells(v)}
  IN  IF ~active(v) THEN vals
      ELSE [k \in 1..Len(vals) |-> IF k \in pos THEN Zero ELSE vals[k]]

\* orthogonalize on worker w
orthogonalize(w, e, info) ==
  LET a == NumA(w)
      q == Filled(a.mat, FactorQ)
  IN  IF ~active(a.mat)
      THEN [st |-> "returned", r_max |-> e.max, r_min |-> e.min, vals |-> a.vals]
      ELSE IF info # 0
      THEN [st |-> "abort", r_max |-> 0, r_min |-> 0, vals |-> <<>>]
      ELSE [st |-> "returned",
            r_max |-> gamx2d({Rloc(v, e).max : v \in NumActive}),
            r_min |-> gamn2d({Rloc(v, e).min : v \in NumActive}),
            vals |-> IF cols(a.mat) > rows(a.mat)
                     THEN zeroed(Trailing(a.mat), q)
                     ELSE q]

CallOrthogonalize ==
  /\ Idle
  /\ \E emax \in EntryVals, emin \in EntryVals, info \in Infos :
       LET e == [max |-> emax, min |-> emin]
       IN  out' = [op |-> "orthogonalize", entry |-> e, info |-> info,
                   res |-> [w \in Workers |-> orthogonalize(w, e, info)]]

\* the largest and the smallest magnitude on the diagonal of the factor
TrueMax == MaxOf({Abs(FactorR[gi, gi]) : gi \in 0..(minmn - 1)})
TrueMin == MinOf({Abs(FactorR[gi, gi]) : gi \in 0..(minmn - 1)})

(***************************************************************************)
(* C15: after orthogonalize returns, r_max and r_min on every active       *)
(* worker are the largest and the smallest magnitude of the diagonal of    *)
(* the triangular factor over the whole grid, whatever r_max and r_min     *)
(* held on entry and whichever workers hold diagonal entries or have an    *)
(* empty local part.                                                       *)
(***************************************************************************)
C15_DiagonalRange ==
  out.op = "orthogonalize" =>
    \A w \in NumActive :
      out.res[w].st = "returned" =>
        /\ Abs(out.res[w].r_max) = TrueMax
        /\ Abs(out.res[w].r_min) = TrueMin

(***************************************************************************)
(* C16: after orthogonalize of a matrix with more columns than rows, on    *)
(* every active worker every local entry in a global column >= rows is     *)
(* zero and every entry in a column < rows is what the factorization left  *)
(* there.                                                                  *)
(***************************************************************************)
C16_TrailingZero ==
  (out.op = "orthogonalize" /\ call.N > call.M) =>
    \A w \in NumActive :
      out.res[w].st = "returned" =>
        LET m == NumA(w).mat
        IN  \A r \in 0..(lrows(m) - 1), c \in 0..(lcols(m) - 1) :
              out.res[w].vals[At(m, r, c) + 1] =
                IF coll2g(m, c) >= call.M THEN Zero
                ELSE FactorQ[rowl2g(m, r), coll2g(m, c)]

\* a worker holds columns on both sides of column rows, the first trailing
\* column not at the start of a block
C16_Witness ==
  /\ out.op = "orthogonalize" /\ call.N > call.M /\ call.M % call.nb # 0
  /\ \E w \in NumActive :
       LET m == NumA(w).mat
       IN  /\ out.res[w].st = "returned" /\ lrows(m) > 0
           /\ \E c \in 0..(lcols(m) - 1) : coll2g(m, c) >= call.M
           /\ \E c \in 0..(lcols(m) - 1) : coll2g(m, c) < call.M

(***************************************************************************)
(* LU() and solve(b, piv).  pgetrf and pgetrs are taken from their         *)
(* ScaLAPACK definitions: each returns a status, 0 on success, and pgetrf  *)
(* fills the first lrows pivots, pgetrs overwrites c with the solution.    *)
(***************************************************************************)
Pivots(m) ==
  [k \in 1..(lrows(m) + MB(m)) |->
     IF k <= lrows(m) THEN rowl2g(m, k - 1) + 1 ELSE Zero]
Solution == [i \in 0..(call.M - 1), j \in 0..0 |-> 400 + 10 * i + j]

\* LU that returns the pivots whatever pgetrf reports
LU_unchecked(w, info) ==
  IF ~active(NumA(w).mat) THEN [st |-> "returned", ipiv |-> <<>>]
  ELSE [st |-> "returned", ipiv |-> Pivots(NumA(w).mat)]

\* LU on worker w, info the status of pgetrf
LU(w, info) ==
  IF ~active(NumA(w).mat) THEN [st |-> "returned", ipiv |-> <<>>]
  ELSE IF info # 0 THEN [st |-> "exit", ipiv |-> <<>>]
  ELSE [st |-> "returned", ipiv |-> Pivots(NumA(w).mat)]

\* solve on worker w with a right-hand side b of one column, info the
\* status of pgetrs
solve(w, info) ==
  LET b == Local(NumGrid(w), call.M, 1, default_MB, default_NB,
                 ContentsB(call.M, 1))
  IN  IF ~active(NumA(w).mat)
      THEN [st |-> "returned",
            c |-> [mat |-> DistributedMatrix3(b.mat.grid, rows(b.mat), cols(b.mat)),
                   vals |-> <<>>]]
      ELSE IF info # 0 THEN [st |-> "abort", c |-> [mat |-> Dead, vals |-> <<>>]]
      ELSE [st |-> "returned",
            c |-> [mat |-> b.mat, vals |-> Filled(b.mat, Solution)]]

CallLU ==
  /\ Idle
  /\ \E info \in Infos :
       out' = [op |-> "LU", info |-> info,
               res |-> [w \in Workers |-> LU(w, info)]]

CallSolve ==
  /\ Idle
  /\ \E info \in Infos :
       out' = [op |-> "solve", info |-> info,
               res |-> [w \in Workers |-> solve(w, info)]]

(***************************************************************************)
(* C17: numerical failure is fatal.  LU returns to its caller only when    *)
(* pgetrf reported status 0, and then with lrows + MB pivots on an active  *)
(* worker and none on an inactive one; with any other status the active    *)
(* workers terminate.  solve returns the solution only when pgetrs         *)
(* reported status 0 and terminates the active workers otherwise.          *)
(***************************************************************************)
C17_FailureIsFatal ==
  /\ out.op = "LU" =>
       \A w \in Workers :
         LET m == NumA(w).mat
         IN  IF ~active(m)
             THEN out.res[w].st = "returned" /\ out.res[w].ipiv = <<>>
             ELSE IF out.info # 0 THEN out.res[w].st = "exit"
             ELSE /\ out.res[w].st = "returned"
                  /\ Len(out.res[w].ipiv) = lrows(m) + MB(m)
  /\ out.op = "solve" =>
       \A w \in NumActive :
         IF out.info # 0 THEN out.res[w].st = "abort"
         ELSE /\ out.res[w].st = "returned"
              /\ out.res[w].c.vals = Filled(out.res[w].c.mat, Solution)

\* pgetrf failed on a grid that leaves a worker out
C17_Witness ==
  /\ out.op = "LU" /\ out.info # 0
  /\ \E w \in NumActive : out.res[w].st = "exit"
  /\ \E w \in Workers \ NumActive : out.res[w].st = "returned"

(***************************************************************************)
(* ID_column(X, piv, ind).  pgeqpfmod is taken from its definition: it     *)
(* reports the rank r, the order J of the pivoted columns (1-based) and    *)
(* the pivot position gpiv of every column, and leaves the factor FactorP  *)
(* in the matrix; trsm replaces every entry of X by its solved value.      *)
(***************************************************************************)
Perms(n) == {[c \in 1..n |-> c], [c \in 1..n |-> n + 1 - c]}
Gpiv(JJ) == [g \in 1..Len(JJ) |-> CHOOSE c \in 1..Len(JJ) : JJ[c] = g]
FactorP(M, N) == [i \in 0..(M - 1), j \in 0..(N - 1) |-> 500 + 10 * i + j]
Solved(v) == 1000 + v

\* X, piv and ind as the caller passes them in
EntryOut == [st |-> "returned", X |-> [mat |-> Dead, vals |-> <<>>],
             piv |-> <<-7>>, ind |-> <<-7>>]

\* piv.resize(n)
Resized(q, n) == [k \in 1..n |-> IF k <= Len(q) THEN q[k] ELSE Zero]

\* copy(m, n, a, ia, ja, b, ib, jb): the assertions on its arguments
CopyFits(m, n, a, ia, ja, b, ib, jb) ==
  /\ ~active(a) \/ (m + ia <= rows(a) /\ n + ja <= cols(a))
  /\ ~active(b) \/ (m + ib <= rows(b) /\ n + jb <= cols(b))

\* copy(m, n, a, ia, ja, b, ib, jb) as worker w sees it, As the source on
\* every worker: the new buffer of b
copy(m, n, As, ia, ja, b, ib, jb) ==
  IF m = 0 \/ n = 0 \/ ~active(b.mat) THEN b.vals
  ELSE pgemr2d(m, n, [v \in Workers |-> [As[v].mat EXCEPT !.data = 1]],
               [v \in Workers |-> <<[st |-> "live", vals |-> As[v].vals]>>],
               ia, ja, b.mat, b.vals, ib, jb)

\* piv[c] = gpiv[c]: the pivot of the local instead of the global column
pivots_local(m, e, JJ) ==
  [c \in 1..(lcols(m) + NB(m)) |->
     IF c <= lcols(m) THEN Gpiv(JJ)[c]
     ELSE Resized(e.piv, lcols(m) + NB(m))[c]]

\* piv after piv.resize(lcols()+NB()) and piv[c] = gpiv[coll2g(c)]
pivots(m, e, JJ) ==
  [c \in 1..(lcols(m) + NB(m)) |->
     IF c <= lcols(m) THEN Gpiv(JJ)[coll2g(m, c - 1) + 1]
     ELSE Resized(e.piv, lcols(m) + NB(m))[c]]

\* ID_column on worker w of the matrix whose handles are Ms, with rank r
\* and column order JJ from pgeqpfmod
ID_column(Ms, w, r, JJ) ==
  LET m == Ms[w]
      As == [v \in Workers |->
               [mat |-> Ms[v],
                vals |-> IF active(Ms[v])
                         THEN Filled(Ms[v], FactorP(rows(m), cols(m)))
                         ELSE <<>>]]
      x == DistributedMatrix3(m.grid, r, cols(m) - r)
      x0 == [mat |-> x, vals |-> [k \in 1..Size(x) |-> Uninit]]
      xv == copy(r, cols(m) - r, As, 0, r, x0, 0, 0)
  IN  IF ~active(m) THEN EntryOut
      ELSE [st |-> "returned",
            X |-> [mat |-> x, vals |-> [k \in 1..Len(xv) |-> Solved(xv[k])]],
            piv |-> pivots(m, EntryOut, JJ),
            ind |-> [c \in 1..r |-> JJ[c] - 1]]

CallIDColumn ==
  /\ Idle
  /\ \E r \in 0..minmn, JJ \in Perms(call.N) :
       out' = [op |-> "ID_column", r |-> r, J |-> JJ,
               res |-> [w \in Workers |->
                          ID_column([v \in Workers |-> NumA(v).mat], w, r, JJ)]]

(***************************************************************************)
(* C18: ID_column with numerical rank r leaves, on every active worker,    *)
(* ind with exactly r entries, ind[c] the 0-based global index of the c-th *)
(* pivoted column; piv with lcols + NB entries, piv[c] for a local column  *)
(* c the pivot position of global column coll2g(c); and X of global shape  *)
(* r x (cols - r) holding the trailing block of the factor solved against  *)
(* the leading block.  On an inactive worker X, piv and ind are unchanged. *)
(***************************************************************************)
C18_IDColumn ==
  out.op = "ID_column" =>
    \A w \in Workers :
      LET m == NumA(w).mat
          res == out.res[w]
      IN  IF ~active(m) THEN res = EntryOut
          ELSE /\ Len(res.ind) = out.r
               /\ \A c \in 1..out.r : res.ind[c] = out.J[c] - 1
               /\ Len(res.piv) = lcols(m) + NB(m)
               /\ \A c \in 0..(lcols(m) - 1) :
                    res.piv[c + 1] = Gpiv(out.J)[coll2g(m, c) + 1]
               /\ rows(res.X.mat) = out.r
               /\ cols(res.X.mat) = call.N - out.r
               /\ res.X.vals =
                    Filled(res.X.mat,
                           [i \in 0..(out.r - 1), j \in 0..(call.N - out.r - 1) |->
                              Solved(FactorP(call.M, call.N)[i, out.r + j])])

\* a worker holds part of a nonempty X and a pivoted column that is not
\* its first local column's own index
C18_Witness ==
  /\ out.op = "ID_column" /\ out.r > 0 /\ out.r < call.N
  /\ \E w \in NumActive :
       /\ Len(out.res[w].X.vals) > 0
       /\ lcols(NumA(w).mat) > 0
       /\ out.res[w].piv[1] # 1
  /\ Workers \ NumActive # {}

(***************************************************************************)
(* ID_row(X, piv, ind, grid_T).  grid_T is the grid the caller passes for  *)
(* the transpose: the same workers with the process counts and every       *)
(* worker's coordinates swapped.                                           *)
(***************************************************************************)
GridT(g) ==
  IF ~g.active THEN g
  ELSE [g EXCEPT !.nprows = g.npcols, !.npcols = g.nprows,
                 !.prow = g.pcol, !.pcol = g.prow, !.ctxt = 1]

\* blas::omatcopy('T', m, n, a, lda, b, ldb): b(c, r) = a(r, c); outside
\* the buffer of b, or with ldb < n, the behaviour is undefined
omatcopy(m, n, avals, lda, bvals, ldb) ==
  LET src == (0..(m - 1)) \X (0..(n - 1))
  IN  IF src = {} THEN [st |-> "returned", vals |-> bvals]
      ELSE IF ldb < n \/ \E e \in src : e[2] + ldb * e[1] + 1 > Len(bvals)
      THEN [st |-> "fault", vals |-> bvals]
      ELSE [st |-> "returned",
            vals |-> [k \in 1..Len(bvals) |->
                        IF \E e \in src : e[2] + ldb * e[1] + 1 = k
                        THEN LET e == CHOOSE x \in src : x[2] + ldb * x[1] + 1 = k
                             IN  avals[e[1] + lda * e[2] + 1]
                        ELSE bvals[k]]]

\* DistributedMatrix this_T(grid_T, cols(), rows()) on worker w
ThisT(w) == DistributedMatrix3(GridT(NumGrid(w)), call.N, call.M)

\* ID_row on worker w, r and JJ the rank and the column order pgeqpfmod
\* reports for the transpose
ID_row(w, r, JJ) ==
  LET a == NumA(w)
      tT == ThisT(w)
      t == omatcopy(lrows(a.mat), lcols(a.mat), a.vals, ld(a.mat),
                    [k \in 1..Size(tT) |-> Uninit], ld(tT))
      col == ID_column([v \in Workers |-> ThisT(v)], w, r, JJ)
      x == DistributedMatrix3(a.mat.grid, cols(col.X.mat), rows(col.X.mat))
      xv == omatcopy(lrows(col.X.mat), lcols(col.X.mat), col.X.vals,
                     ld(col.X.mat), [k \in 1..Size(x) |-> Uninit], ld(x))
  IN  IF ~active(a.mat)
      THEN [EntryOut EXCEPT !.st = "returned"] @@ [this_T |-> <<>>]
      ELSE IF t.st = "fault" \/ xv.st = "fault"
      THEN [EntryOut EXCEPT !.st = "fault"] @@ [this_T |-> t.vals]
      ELSE [st |-> "returned", X |-> [mat |-> x, vals |-> xv.vals],
            piv |-> col.piv, ind |-> col.ind, this_T |-> t.vals]

CallIDRow ==
  /\ Idle
  /\ \E r \in 0..minmn, JJ \in Perms(call.M) :
       out' = [op |-> "ID_row", r |-> r, J |-> JJ,
               res |-> [w \in Workers |-> ID_row(w, r, JJ)]]

(***************************************************************************)
(* C19: ID_row transposes the matrix onto grid_T: on every active worker   *)
(* entry (j, i) of the intermediate equals entry (i, j) of the original,   *)
(* whatever the block sizes of the original; ID_column is applied to the   *)
(* intermediate and X is transposed back, so the X returned has shape      *)
(* (rows - r) x r and is the transpose of the X of the intermediate.       *)
(***************************************************************************)
C19_IDRow ==
  out.op = "ID_row" =>
    \A w \in NumActive :
      LET tT == ThisT(w)
          res == out.res[w]
      IN  /\ res.st = "returned"
          /\ res.this_T =
               Filled(tT, [j \in 0..(call.N - 1), i \in 0..(call.M - 1) |->
                             ValA(i, j)])
          /\ rows(res.X.mat) = call.M - out.r
          /\ cols(res.X.mat) = out.r
          /\ res.X.vals =
               Filled(res.X.mat,
                      [i \in 0..(call.M - out.r - 1), j \in 0..(out.r - 1) |->
                         Solved(FactorP(call.N, call.M)[j, out.r + i])])

(***************************************************************************)
(* LQ(L, Q).  pgelqf and pxxglq are taken from their definitions: pgelqf   *)
(* leaves the factor FactorL in tmp, pxxglq replaces the leading           *)
(* cols x cols block of tmp by FactorLQ.                                   *)
(***************************************************************************)
FactorL(M, N) == [i \in 0..(M - 1), j \in 0..(N - 1) |-> 600 + 10 * i + j]
FactorLQ(M, N) == [i \in 0..(M - 1), j \in 0..(N - 1) |-> 700 + 10 * i + j]

\* the three matrices of LQ on worker v
LQtmp(v) == DistributedMatrix3(NumGrid(v), Max(call.M, call.N), call.N)
LQL(v) == DistributedMatrix3(NumGrid(v), call.M, call.M)
LQQ(v) == DistributedMatrix3(NumGrid(v), call.N, call.N)

\* the redistribution copies LQ makes, each with whether its arguments
\* satisfy the assertions of copy
LQcopies(w) ==
  <<CopyFits(call.M, call.N, NumA(w).mat, 0, 0, LQtmp(w), 0, 0),
    CopyFits(call.M, call.M, LQtmp(w), 0, 0, LQL(w), 0, 0)>>
  \o (IF rows(LQtmp(w)) = call.N THEN <<>>
      ELSE <<CopyFits(call.N, call.N, LQtmp(w), 0, 0, LQQ(w), 0, 0)>>)

\* LQ on worker w
LQ(w) ==
  LET tl == [v \in Workers |->
               [mat |-> LQtmp(v),
                vals |-> IF active(LQtmp(v))
                         THEN Filled(LQtmp(v), FactorL(rows(LQtmp(v)), call.N))
                         ELSE <<>>]]
      tq == [v \in Workers |->
               [mat |-> LQtmp(v),
                vals |-> IF active(LQtmp(v))
                         THEN Filled(LQtmp(v), FactorLQ(rows(LQtmp(v)), call.N))
                         ELSE <<>>]]
      l0 == [mat |-> LQL(w), vals |-> [k \in 1..Size(LQL(w)) |-> Uninit]]
      q0 == [mat |-> LQQ(w), vals |-> [k \in 1..Size(LQQ(w)) |-> Uninit]]
  IN  IF ~active(NumA(w).mat)
      THEN [st |-> "returned", copies |-> <<>>,
            L |-> EntryOut.X, Q |-> EntryOut.X]
      ELSE IF \E k \in 1..Len(LQcopies(w)) : ~LQcopies(w)[k]
      THEN [st |-> "fault", copies |-> LQcopies(w),
            L |-> EntryOut.X, Q |-> EntryOut.X]
      ELSE [st |-> "returned", copies |-> LQcopies(w),
            L |-> [mat |-> LQL(w),
                   vals |-> copy(call.M, call.M, tl, 0, 0, l0, 0, 0)],
            Q |-> IF rows(LQtmp(w)) = call.N THEN tq[w]
                  ELSE [mat |-> LQQ(w),
                        vals |-> copy(call.N, call.N, tq, 0, 0, q0, 0, 0)]]

CallLQ ==
  /\ Idle
  /\ out' = [op |-> "LQ", res |-> [w \in Workers |-> LQ(w)]]

(***************************************************************************)
(* C20: LQ on an active m x n matrix returns L of shape m x m and Q of     *)
(* shape n x n for every shape (m < n, m = n, m > n), through an           *)
(* intermediate of max(m, n) rows, and every redistribution copy it makes  *)
(* satisfies the precondition of copy: the block copied fits within the    *)
(* declared global extent of its source and of its destination.            *)
(***************************************************************************)
C20_LQShapes ==
  out.op = "LQ" =>
    \A w \in NumActive :
      LET res == out.res[w]
      IN  /\ \A k \in 1..Len(res.copies) : res.copies[k]
          /\ res.st = "returned"
          /\ rows(res.L.mat) = call.M /\ cols(res.L.mat) = call.M
          /\ rows(res.Q.mat) = call.N /\ cols(res.Q.mat) = call.N

(***************************************************************************)
(* The three overloads of copy(m, n, ...), as worker w runs them.  Each    *)
(* returns the destination b and the trace of what it evaluated: the       *)
(* assertions on its arguments, descset and pgemr2d.  A DenseMatrix is a   *)
(* record rows, cols, ld, vals (column major).                             *)
(***************************************************************************)
DenseMatrix(m, n, Val) ==
  [rows |-> m, cols |-> n, ld |-> Max(1, m),
   vals |-> [k \in 1..(m * n) |-> Val[(k - 1) % Max(1, m), (k - 1) \div Max(1, m)]]]

\* the global entry (i, j) of the distributed matrix As
EntryOf(As, i, j) ==
  GlobalAt([v \in Workers |-> [As[v].mat EXCEPT !.data = 1]],
           [v \in Workers |-> <<[st |-> "live", vals |-> As[v].vals]>>], i, j)

\* the distributed to distributed overload without its first line
copy_dist_eager(m, n, As, ia, ja, b, ib, jb, w) ==
  IF ~CopyFits(m, n, As[w].mat, ia, ja, b.mat, ib, jb)
  THEN [b |-> b, trace |-> <<"assert">>, st |-> "aborted"]
  ELSE [b |-> [b EXCEPT !.vals = copy(m, n, As, ia, ja, b, ib, jb)],
        trace |-> <<"assert", "assert", "pgemr2d">>, st |-> "returned"]

\* copy(m, n, a, ia, ja, b, ib, jb, context_all), both distributed
copy_dist(m, n, As, ia, ja, b, ib, jb, w) ==
  IF m = 0 \/ n = 0 THEN [b |-> b, trace |-> <<>>, st |-> "returned"]
  ELSE IF ~CopyFits(m, n, As[w].mat, ia, ja, b.mat, ib, jb)
  THEN [b |-> b, trace |-> <<"assert">>, st |-> "aborted"]
  ELSE [b |-> [b EXCEPT !.vals = copy(m, n, As, ia, ja, b, ib, jb)],
        trace |-> <<"assert", "assert", "pgemr2d">>, st |-> "returned"]

\* copy(m, n, a, ia, ja, b, dest, context_all): b is the DenseMatrix of
\* worker dest, described as one m x n block with leading dimension m
copy_to_dense(m, n, As, ia, ja, b, dest, w) ==
  IF m = 0 \/ n = 0 THEN [b |-> b, trace |-> <<>>, st |-> "returned"]
  ELSE [b |-> IF w # dest THEN b
              ELSE [b EXCEPT !.vals =
                      [k \in 1..Len(b.vals) |->
                         IF k <= m * n
                         THEN EntryOf(As, ia + ((k - 1) % m), ja + ((k - 1) \div m))
                         ELSE b.vals[k]]],
        trace |-> <<"descset", "pgemr2d">>, st |-> "returned"]

\* copy(m, n, a, src, b, ib, jb, context_all): a is the DenseMatrix of
\* worker src, described with leading dimension max(m, a.ld())
copy_from_dense(m, n, a, src, b, ib, jb, w) ==
  IF m = 0 \/ n = 0 THEN [b |-> b, trace |-> <<>>, st |-> "returned"]
  ELSE [b |-> IF ~active(b.mat) THEN b
              ELSE [b EXCEPT !.vals =
                      [k \in 1..Len(b.vals) |->
                         LET hit == {e \in (0..(m - 1)) \X (0..(n - 1)) :
                                       /\ is_local(b.mat, ib + e[1], jb + e[2])
                                       /\ At(b.mat, rowg2l(b.mat, ib + e[1]),
                                             colg2l(b.mat, jb + e[2])) + 1 = k}
                         IN  IF hit = {} THEN b.vals[k]
                             ELSE LET e == CHOOSE x \in hit : TRUE
                                  IN  a.vals[e[1] + Max(m, a.ld) * e[2] + 1]]],
        trace |-> <<"descset", "pgemr2d">>, st |-> "returned"]

\* the matrices of a copy call: the distributed source A, the distributed
\* destination B and the dense matrix D of every worker
NumB(w) ==
  Local(NumGrid(w), call.M, call.N, call.mb, call.nb,
        ContentsB(call.M, call.N))
NumD == DenseMatrix(call.M, call.N, ContentsB(call.M, call.N))
CopyKinds == {"dist", "to_dense", "from_dense"}
CopyDest(kind, w) == IF kind = "to_dense" THEN NumD ELSE NumB(w)

CallCopy ==
  /\ Idle
  /\ \E kind \in CopyKinds, m \in 0..call.M, n \in 0..call.N,
        io \in 0..MaxOff, jo \in 0..MaxOff, root \in NumActive :
       /\ (m # 0 /\ n # 0) => (m + io <= call.M /\ n + jo <= call.N)
       /\ LET As == [v \in Workers |-> NumA(v)]
          IN  out' = [op |-> "copy", kind |-> kind, m |-> m, n |-> n,
                      res |-> [w \in Workers |->
                        CASE kind = "dist" ->
                               copy_dist(m, n, As, io, jo, NumB(w), io, jo, w)
                          [] kind = "to_dense" ->
                               copy_to_dense(m, n, As, io, jo, NumD, root, w)
                          [] kind = "from_dense" ->
                               copy_from_dense(m, n, NumD, root, NumB(w),
                                               io, jo, w)]]

(***************************************************************************)
(* C21: copy(m, n, ...) with m = 0 or n = 0 does nothing in any of the     *)
(* three overloads: on every worker the destination keeps its buffer,      *)
(* shape and descriptor, no assertion is evaluated and neither descset nor *)
(* pgemr2d is called.                                                      *)
(***************************************************************************)
C21_CopyNoop ==
  (out.op = "copy" /\ (out.m = 0 \/ out.n = 0)) =>
    \A w \in Workers :
      /\ out.res[w].b = CopyDest(out.kind, w)
      /\ out.res[w].trace = <<>>
      /\ out.res[w].st = "returned"

\* a distributed to distributed copy of no rows was made
C21_Witness ==
  /\ out.op = "copy" /\ out.kind = "dist"
  /\ out.m = 0 /\ out.n > 0
  /\ \A w \in Workers : out.res[w].trace = <<>>

(***************************************************************************)
(* eye(), shift(sigma) and gather() on worker w's part a (mat, vals) of a  *)
(* matrix: the loops over lranges, and pgemr2d into a rows x cols          *)
(* DenseMatrix on the master of the grid.                                  *)
(***************************************************************************)
Shifts == {Zero, Sigma}

\* the diagonal test on the local instead of the global indices
eye_vals_local(a) ==
  IF ~active(a.mat) THEN a
  ELSE [a EXCEPT !.vals =
          [k \in 1..Len(a.vals) |->
             LET hit == {rc \in Cells(a.mat) : At(a.mat, rc[1], rc[2]) + 1 = k}
             IN  IF hit = {} THEN a.vals[k]
                 ELSE LET rc == CHOOSE x \in hit : TRUE
                      IN  IF rc[1] = rc[2] THEN 1 ELSE Zero]]

\* eye()
eye_vals(a) ==
  IF ~active(a.mat) THEN a
  ELSE [a EXCEPT !.vals =
          [k \in 1..Len(a.vals) |->
             LET hit == {rc \in Cells(a.mat) : At(a.mat, rc[1], rc[2]) + 1 = k}
             IN  IF hit = {} THEN a.vals[k]
                 ELSE IF hit \subseteq Diagonal(a.mat) THEN 1 ELSE Zero]]

\* shift(sigma)
shift_vals(a, sigma) ==
  [a EXCEPT !.vals =
     [k \in 1..Len(a.vals) |->
        IF \E rc \in Diagonal(a.mat) : At(a.mat, rc[1], rc[2]) + 1 = k
        THEN a.vals[k] + sigma
        ELSE a.vals[k]]]

is_master(m) == prow(m) = 0 /\ pcol(m) = 0
NoDense == [rows |-> 0, cols |-> 0, ld |-> 1, vals |-> <<>>]

\* gather(), As the matrix on every worker
gather(As, w) ==
  LET m == As[w].mat
  IN  IF ~active(m) \/ ~is_master(m) THEN NoDense
      ELSE [rows |-> rows(m), cols |-> cols(m), ld |-> Max(1, rows(m)),
            vals |-> [k \in 1..(rows(m) * cols(m)) |->
                        EntryOf(As, (k - 1) % rows(m), (k - 1) \div rows(m))]]

\* a freshly constructed M x N matrix on worker w
NumFresh(w) ==
  LET m == DistributedMatrix5(NumGrid(w), call.M, call.N, call.mb, call.nb)
  IN  [mat |-> m, vals |-> [k \in 1..Size(m) |-> Uninit]]

CallEyeShift ==
  /\ Idle
  /\ \E s \in Shifts :
       LET As == [v \in Workers |-> shift_vals(eye_vals(NumFresh(v)), s)]
       IN  out' = [op |-> "eye_shift", s |-> s,
                   res |-> [w \in Workers |-> gather(As, w)]]

(***************************************************************************)
(* C22: after eye() and shift(s) on an M x N matrix, on any grid and with  *)
(* any block sizes, the DenseMatrix gathered on the master is M x N with   *)
(* 1 + s in every diagonal entry and 0 in every other entry.               *)
(***************************************************************************)
C22_EyeShift ==
  out.op = "eye_shift" =>
    LET d == out.res[0]
    IN  /\ d.rows = call.M /\ d.cols = call.N
        /\ \A i \in 0..(call.M - 1), j \in 0..(call.N - 1) :
             d.vals[i + d.ld * j + 1] = IF i = j THEN 1 + out.s ELSE Zero

\* the matrix was spread over a 2 x 2 grid in blocks of 2 and shifted by 2
C22_Witness ==
  /\ out.op = "eye_shift" /\ out.s = Sigma
  /\ call.nprows = 2 /\ call.npcols = 2 /\ call.mb = 2 /\ call.nb = 2
  /\ call.M = XDim /\ call.N = XDim
  /\ out.res[0].vals[1] = 1 + Sigma

(***************************************************************************)
(* C23: resize(m, n) replaces the matrix by one of global shape m x n on   *)
(* the same grid and with the same block sizes; every global entry (i, j)  *)
(* with i < min(m, old rows) and j < min(n, old cols) that the worker held *)
(* keeps its value; and the old buffer is released exactly once: resize    *)
(* runs into no undefined behaviour and leaves the old buffer freed.       *)
(***************************************************************************)
Holds(m, h, i, j) ==
  /\ active(m) /\ is_local(m, i, j)
  /\ rowg2l(m, i) < lrows(m) /\ colg2l(m, j) < lcols(m)
  /\ ~BadAccess(h, m.data, Size(m))
EntryAt(m, h, i, j) == h[m.data].vals[At(m, rowg2l(m, i), colg2l(m, j)) + 1]

C23_ResizeKeeps ==
  [][\A s \in Slots :
       Resize(s) =>
         LET old == objs[s]
             new == objs'[s]
         IN  /\ fault' = "none"
             /\ new.grid = old.grid /\ MB(new) = MB(old) /\ NB(new) = NB(old)
             /\ rows(new) \in ObjDims /\ cols(new) \in ObjDims
             /\ active(new) => ~BadAccess(heap', new.data, Size(new))
             /\ \A i \in 0..(Min(rows(new), rows(old)) - 1),
                   j \in 0..(Min(cols(new), cols(old)) - 1) :
                  Holds(old, heap, i, j) =>
                    /\ Holds(new, heap', i, j)
                    /\ EntryAt(new, heap', i, j) = EntryAt(old, heap, i, j)
             /\ old.data # 0 => /\ heap[old.data].st = "live"
                                /\ heap'[old.data].st = "freed"]_vars

(***************************************************************************)
(* C25: in extract_rows / extract_cols every occurrence r of the index     *)
(* list is delivered by exactly one path.  An occurrence whose source      *)
(* owner and destination owner are the same worker is in no send buffer;   *)
(* the message from s to d holds, in list order, exactly the occurrences   *)
(* owned by s and destined to d, which d stores at the output position of  *)
(* that same occurrence; and every local row / column of the output is     *)
(* written exactly once.                                                   *)
(***************************************************************************)
\* the workers that have gone through the three loops
Exchanged(w) == active(wk[w].A) /\ wk[w].pc \in {"unpacked", "done"}
HasPosted(w) == active(wk[w].A) /\ wk[w].pc \in Posted

\* the occurrences that the loops of worker d write into tmp, and those
\* that come in the message of the peer at p, in list order
WrittenBy(d) ==
  {r \in 0..(Len(run.Ir) - 1) : g2p(wk[d].A, Dir, r) = me(wk[d].A, Dir)}
CarriedFrom(d, p) ==
  SelectSeq(Range(0, Len(run.Ir)),
            LAMBDA r : ComesHere(wk[d].A, Dir, run.Ir, r)
                       /\ g2p(wk[d].A, Dir, run.Ir[r + 1]) = p)

\* the local rows / columns of tmp
lines(t) == IF Dir = "rows" THEN lrows(t) ELSE lcols(t)

\* element c of the row / column of tmp that occurrence r is stored in
StoredAt(d, r, c) ==
  LET t == wk[d].tmp
      k == Elem(t, Dir, g2l(t, Dir, r), c - 1) + 1
      vals == wk[d].heap[t.data].vals
  IN  IF k >= 1 /\ k <= Len(vals) THEN vals[k] ELSE Uninit

\* the row / column of A that occurrence r names, as its owner in the grid
\* row / column of d holds it
SourceLine(d, r) ==
  LET a == wk[d].A
      p == g2p(a, Dir, run.Ir[r + 1])
      s == IF p = me(a, Dir) THEN d ELSE peer(a, Dir, p)
  IN  Line(wk[s].A, wk[s].heap[wk[s].A.data].vals, Dir, run.Ir[r + 1])

C25_OnePath ==
  \A d \in Workers :
    /\ HasPosted(d) =>
         \A p \in Peers(wk[d].A, Dir) :
           LET s == peer(wk[d].A, Dir, p)
               list == CarriedFrom(d, p)
               n == span(wk[d].A, Dir)
           IN  net[s][d].st # "none" =>
                 /\ Len(net[s][d].data) = n * Len(list)
                 /\ \A k \in 1..Len(list), c \in 1..n :
                      net[s][d].data[(k - 1) * n + c] = SourceLine(d, list[k])[c]
    /\ Exchanged(d) =>
         /\ \A r \in WrittenBy(d) :
              /\ g2l(wk[d].tmp, Dir, r) \in 0..(lines(wk[d].tmp) - 1)
              /\ \A c \in 1..span(wk[d].A, Dir) :
                   StoredAt(d, r, c) = SourceLine(d, r)[c]
              /\ \A q \in WrittenBy(d) :
                   g2l(wk[d].tmp, Dir, q) = g2l(wk[d].tmp, Dir, r) => q = r
         /\ Cardinality(WrittenBy(d)) = lines(wk[d].tmp)

(***************************************************************************)
(* C26: one message per peer.  A worker that has posted its requests in    *)
(* extract_rows has one send and one receive for every other worker of its *)
(* grid column, nprows - 1 of each, each in a request slot of its own, and *)
(* none for a worker of another grid column; extract_cols does the same    *)
(* along the grid row; an inactive worker posts nothing.                   *)
(***************************************************************************)
\* the other workers of the grid column (extract_rows) or grid row
\* (extract_cols) of worker w, by their grid coordinates
SameLine(w) ==
  {v \in Workers \ {w} :
     /\ active(wk[v].A)
     /\ IF Dir = "rows" THEN pcol(wk[v].A) = pcol(wk[w].A)
                        ELSE prow(wk[v].A) = prow(wk[w].A)}

\* the ranks worker w has posted a send to, and a receive from
Isends(w) == {d \in Workers : net[w][d].st # "none"}
Irecvs(w) ==
  IF HasPosted(w)
  THEN {peer(wk[w].A, Dir, p) : p \in Peers(wk[w].A, Dir)}
  ELSE {}

Absent(v) == active(wk[v].A) /\ wk[v].pc = "idle"
Callers(v) == {w \in Workers \ {v} : active(wk[w].A)}

C27_AbsentBlocksSome ==
  \A v \in Workers :
    (Absent(v) /\ Callers(v) # {}) => \E w \in Callers(v) : wk[w].pc # "done"

(***************************************************************************)
(* C27 as amended: while an active worker has not called extract_rows      *)
(* (extract_cols), no other worker of its grid column (grid row) gets past *)
(* the wait-all over its receives, so none of them returns.                *)
(***************************************************************************)
C27_AbsentBlocksLine ==
  \A v \in Workers :
    Absent(v) => \A w \in SameLine(v) : wk[w].pc \notin {"unpacked", "done"}

\* a worker has posted its requests, its send to the absent worker is
\* complete, and it waits for the receive from the absent worker
C27_Witness ==
  \E v \in Workers :
    /\ Absent(v)
    /\ \E w \in SameLine(v) :
         /\ wk[w].pc = "posted" /\ net[w][v].st = "buffered"
         /\ ~CanWaitRecv(w)

(***************************************************************************)
(* C28: copy construction and copy assignment yield a deep copy whatever   *)
(* the state of source and target: they run into no undefined behaviour,   *)
(* the source is unchanged, and the target has the source's grid,          *)
(* descriptor and local extents and a live buffer of its own, distinct     *)
(* from the source's, holding the source's lrows*lcols values.             *)
(***************************************************************************)
C28_DeepCopy ==
  [][\A s \in Slots, t \in Slots :
       (CopyConstruct(s, t) \/ CopyAssign(s, t)) =>
         LET m == objs[t]
             a == objs'[s]
         IN  /\ fault' = "none"
             /\ objs'[t] = m
             /\ a.grid = m.grid /\ a.desc = m.desc
             /\ lrows(a) = lrows(m) /\ lcols(a) = lcols(m)
             /\ Size(m) > 0 =>
                  /\ a.data # m.data
                  /\ ~BadAccess(heap', a.data, Size(m))
                  /\ ~BadAccess(heap', m.data, Size(m))
                  /\ Vals(heap', a.data, Size(m)) = Vals(heap', m.data, Size(m))
                  /\ Len(heap'[a.data].vals) = Size(m)]_vars

(***************************************************************************)
(* Specification SpecOwn: one worker holding an owning matrix in slot 1    *)
(* and, in the other slots, views of it and owning matrices that were      *)
(* copy- or move-constructed from those views or from other owning         *)
(* matrices.                                                               *)
(***************************************************************************)
Owning(s) == IsLive(s) /\ ~objs[s].wrapper

\* DistributedMatrix(DistributedMatrix&& m) with m a view: s is built
\* from the view t
MoveFromView(s, t) ==
  /\ Tick
  /\ fault = "none" /\ ~IsLive(s) /\ IsLive(t) /\ objs[t].wrapper
  /\ objs' = [objs EXCEPT
                ![s] = [objs[t] EXCEPT !.wrapper = FALSE, !.rows_ = 0,
                                       !.cols_ = 0, !.i_ = 0, !.j_ = 0],
                ![t].data = 0]
  /\ UNCHANGED <<env, heap, fault>>

\* DistributedMatrix(const DistributedMatrix& m) with m a view: s is built
\* from the view t
CopyFromView(s, t) ==
  /\ Tick
  /\ fault = "none" /\ ~IsLive(s) /\ IsLive(t) /\ objs[t].wrapper /\ CanAlloc
  /\ LET m == objs[t]
         n == Size(m)
     IN  IF BadAccess(heap, m.data, n)
         THEN /\ fault' = "copy constructor reads a null buffer"
              /\ UNCHANGED <<objs, heap>>
         ELSE /\ heap' = [New(heap, n) EXCEPT ![NextPtr(heap)].vals =
                            Vals(heap, m.data, n)]
              /\ objs' = [objs EXCEPT ![s] =
                            [m EXCEPT !.data = NextPtr(heap), !.wrapper = FALSE,
                                      !.rows_ = 0, !.cols_ = 0,
                                      !.i_ = 0, !.j_ = 0]]
              /\ fault' = fault
  /\ UNCHANGED env

\* the operations of DistributedMatrix on the owning matrices
OwnCopyConstruct(s, t) == Owning(t) /\ CopyConstruct(s, t)
OwnMoveConstruct(s, t) == Owning(t) /\ MoveConstruct(s, t)
OwnMoveAssign(s, t) == Owning(s) /\ Owning(t) /\ MoveAssign(s, t)
OwnClear(s) == Owning(s) /\ Clear(s)
OwnResize(s) == Owning(s) /\ Resize(s)
OwnDenseAndClear(s) == Owning(s) /\ DenseAndClear(s)
OwnDestroy(s) == Owning(s) /\ Destroy(s)

OwnNext ==
  \/ NewOwner
  \/ \E s \in ViewSlots : NewView(s)
  \/ \E s \in ViewSlots, t \in ViewSlots : MoveFromView(s, t)
  \/ \E s \in ViewSlots, t \in ViewSlots : CopyFromView(s, t)
  \/ \E s \in ViewSlots, t \in AllSlots : OwnCopyConstruct(s, t)
  \/ \E s \in ViewSlots, t \in AllSlots : OwnMoveConstruct(s, t)
  \/ \E s \in AllSlots, t \in AllSlots : OwnMoveAssign(s, t)
  \/ \E s \in AllSlots : OwnClear(s)
  \/ \E s \in AllSlots : OwnResize(s)
  \/ \E s \in AllSlots : OwnDenseAndClear(s)
  \/ \E s \in AllSlots : OwnDestroy(s)
  \/ \E s \in ViewSlots : ViewClear(s)
  \/ \E s \in ViewSlots : ViewDestroy(s)

SpecOwn == ViewInit /\ [][OwnNext]_vars

(***************************************************************************)
(* C29: unique ownership.  After any sequence of constructions, copies,    *)
(* moves (also of an owning matrix from a view), clear, resize,            *)
(* dense_and_clear and destructions, no buffer is held by two owning       *)
(* matrices, no owning matrix holds a buffer that was freed or given away, *)
(* and no delete[] is applied to a buffer that is not live.                *)
(***************************************************************************)
C29_UniqueOwner ==
  /\ fault # "delete[] of a buffer that is not owned"
  /\ \A s \in AllSlots :
       (Owning(s) /\ objs[s].data # 0) =>
         /\ heap[objs[s].data].st = "live"
         /\ \A t \in AllSlots \ {s} :
              Owning(t) => objs[t].data # objs[s].data

(***************************************************************************)
(* HODLR::LRBFMatrix(A, B) on a communicator of the first CommSize ranks,  *)
(* built with HODLRBF support.  LRBF_construct_matvec_init gives every     *)
(* rank its lrows_ and lcols_: consecutive ranges, in rank order, of the   *)
(* rows_ rows and the cols_ columns.                                       *)
(***************************************************************************)
CommSize == call.nprows * call.npcols
Ranks == 0..(CommSize - 1)
Splits(n) ==
  {f \in [Ranks -> 0..n] : SumSeq([k \in 1..CommSize |-> f[k - 1]]) = n}

\* MPI_Allgather of the local counts into dist[1..P], then the prefix sums
Dist(local) ==
  [p \in 0..CommSize |-> SumSeq([k \in 1..p |-> local[k - 1]])]

\* the LRBFMatrix of rank w, lr and lc the local counts of every rank
LRBFMatrix(lr, lc, w) ==
  [rank |-> w, rows_ |-> call.M, cols_ |-> call.N,
   lrows_ |-> lr[w], lcols_ |-> lc[w],
   rdist_ |-> Dist(lr), cdist_ |-> Dist(lc)]

begin_row(m) == m.rdist_[m.rank]
end_row(m) == m.rdist_[m.rank + 1]
begin_col(m) == m.rdist_[m.rank]
end_col(m) == m.rdist_[m.rank + 1]

CallLRBF ==
  /\ Idle
  /\ \E lr \in Splits(call.M), lc \in Splits(call.N) :
       out' = [op |-> "LRBF",
               res |-> [w \in Ranks |->
                          LET m == LRBFMatrix(lr, lc, w)
                          IN  [m |-> m,
                               begin_row |-> begin_row(m),
                               end_row |-> end_row(m),
                               begin_col |-> begin_col(m),
                               end_col |-> end_col(m)]]]

(***************************************************************************)
(* C30: on every rank [begin_row, end_row) and [begin_col, end_col) are    *)
(* the rank's row and column ranges: their lengths are lrows() and         *)
(* lcols(), and over the ranks in order the row ranges partition           *)
(* [0, rows()) and the column ranges partition [0, cols()).                *)
(***************************************************************************)
C30_Ranges ==
  out.op = "LRBF" =>
    /\ \A w \in Ranks :
         LET r == out.res[w]
         IN  /\ r.end_row - r.begin_row = r.m.lrows_
             /\ r.end_col - r.begin_col = r.m.lcols_
    /\ out.res[0].begin_row = 0 /\ out.res[0].begin_col = 0
    /\ out.res[CommSize - 1].end_row = call.M
    /\ out.res[CommSize - 1].end_col = call.N
    /\ \A w \in Ranks \ {0} :
         /\ out.res[w].begin_row = out.res[w - 1].end_row
         /\ out.res[w].begin_col = out.res[w - 1].end_col

\* the calls of SpecNum
NumNext ==
  \/ CallNorm
  \/ CallNorm1
  \/ CallNormI
  \/ CallNormF
  \/ CallOrthogonalize
  \/ CallLU
  \/ CallSolve
  \/ CallIDColumn
  \/ CallIDRow
  \/ CallLQ
  \/ CallCopy
  \/ CallEyeShift
  \/ CallLRBF

SpecNum == NumInit /\ [][NumNext]_vars
====
